---- MODULE Spec2Model ----
(***************************************************************************)
(* The codec library of dune1992-re (src/lib/compression.py): the HSQ      *)
(* LZ77-variant decoder and encoder, the HSQ header peek, and the F7 RLE   *)
(* encoder and decoder.  Each function is a pure computation over a byte   *)
(* buffer; it is modelled as an operator that computes what the code       *)
(* computes, loop iteration by loop iteration, and the actions apply the   *)
(* functions to buffers drawn from bounded sets.  Buffers are sequences of *)
(* integers 0..255; the code's 0-based index i is position i + 1 here.     *)
(* For calls that run interleaved, frames holds the locals of each call in *)
(* progress, and an action runs one iteration of one call's loop.          *)
(***************************************************************************)
EXTENDS Integers, Sequences, FiniteSets, TLC

VARIABLES input, calls, frames

vars == <<input, calls, frames>>

(***************************************************************************)
(* Bounds of the model.                                                    *)
(***************************************************************************)
\* longest buffer handed to the F7 functions
MaxF7Len == 5

\* longest of the short plain buffers handed to hsq_compress
MaxPlainLen == 6

\* the periodic plain buffers run 3 + PeriodicTail and 20 + PeriodicTail
\* bytes past their first period
PeriodicTail == 0

\* longest body of the streams handed to hsq_decompress, and the largest
\* decompressed size their headers declare
MaxBodyLen == 5

MaxDeclared == 3

\* the most calls made on a BitWriter after the bits it starts with
MaxOps == 4

(***************************************************************************)
(* Python's integer and sequence primitives.                               *)
(***************************************************************************)
Min(a, b) == IF a < b THEN a ELSE b

Max(a, b) == IF a > b THEN a ELSE b

\* data[i] for a 0-based index i known to be in range
At(s, i) == s[i + 1]

\* s[i] = v for a 0-based index i known to be in range
SetAt(s, i, v) == [s EXCEPT ![i + 1] = v]

Last(s) == s[Len(s)]

\* A Python list of n entries, indexed from 0: [v] * n, a[i], and a[i] = x.
\* The entries are held in rows of ArrRow, so that an assignment copies one
\* row and not the whole list.
ArrRow == 256

ArrNew(n, v) == [r \in 0..((n - 1) \div ArrRow) |-> [c \in 0..(ArrRow - 1) |-> v]]

ArrGet(a, i) == a[i \div ArrRow][i % ArrRow]

ArrSet(a, i, x) == [a EXCEPT ![i \div ArrRow][i % ArrRow] = x]

\* bytes([b]) * n
Repeat(b, n) == [k \in 1..n |-> b]

\* `while Cont(st): st = Step(st)`, for a loop that makes at most fuel
\* iterations.  The iterations are applied in order, one Step each; the
\* range is halved only to keep the evaluation stack shallow.
RECURSIVE While(_, _, _, _)
While(Cont(_), Step(_), st, fuel) ==
    IF fuel <= 0 \/ ~Cont(st) THEN st
    ELSE IF fuel = 1 THEN Step(st)
    ELSE LET mid == While(Cont, Step, st, fuel \div 2)
         IN  IF Cont(mid) THEN While(Cont, Step, mid, fuel - fuel \div 2) ELSE mid

\* all sequences over S of length at most n
RECURSIVE SeqsUpTo(_, _)
SeqsUpTo(S, n) ==
    IF n = 0 THEN {<<>>}
    ELSE LET shorter == SeqsUpTo(S, n - 1)
         IN  shorter \cup {Append(s, b) : s \in {t \in shorter : Len(t) = n - 1}, b \in S}

(***************************************************************************)
(* F7 RLE (save files).                                                    *)
(***************************************************************************)
\* the control byte 0xF7
F7 == 247

\* the run cap of f7_compress's counting loop
F7MaxRun == 255

\* the locals of both F7 functions before their loops: i = 0, out empty
F7Init == [i |-> 0, out |-> <<>>]

\* the counting loop without its cap of 255
F7CountRunUncapped(data, i) ==
    LET Cont(run) == i + run < Len(data) /\ At(data, i + run) = At(data, i)
        Step(run) == run + 1
    IN  While(Cont, Step, 1, Len(data))

\* the inner while loop of f7_compress: the run of data[i] counted from i
F7CountRun(data, i) ==
    LET Cont(run) == i + run < Len(data) /\ At(data, i + run) = At(data, i)
                     /\ run < F7MaxRun
        Step(run) == run + 1
    IN  While(Cont, Step, 1, F7MaxRun)

\* f7_compress with the escape test made only after the run count: a run of
\* more than 3 bytes 0xF7 is then RLE-encoded like any other byte
F7CompressStepRunFirst(data, st) ==
    LET b   == At(data, st.i)
        run == F7CountRun(data, st.i)
    IN  IF run > 3
        THEN [i |-> st.i + run, out |-> st.out \o <<F7, run, b>>]
        ELSE IF b = F7
        THEN [i |-> st.i + 1, out |-> st.out \o <<F7, 1, F7>>]
        ELSE [i |-> st.i + 1, out |-> Append(st.out, b)]

\* f7_compress with runs of more than 2 bytes RLE-encoded
F7CompressStepShortRuns(data, st) ==
    LET b == At(data, st.i)
    IN  IF b = F7
        THEN [i |-> st.i + 1, out |-> st.out \o <<F7, 1, F7>>]
        ELSE LET run == F7CountRun(data, st.i)
             IN  IF run > 2
                 THEN [i |-> st.i + run, out |-> st.out \o <<F7, run, b>>]
                 ELSE [i |-> st.i + 1, out |-> Append(st.out, b)]

\* one iteration of f7_compress's outer while loop, from state st = [i, out]
F7CompressStep(data, st) ==
    LET b == At(data, st.i)
    IN  IF b = F7
        THEN [i |-> st.i + 1, out |-> st.out \o <<F7, 1, F7>>]
        ELSE LET run == F7CountRun(data, st.i)
             IN  IF run > 3
                 THEN [i |-> st.i + run, out |-> st.out \o <<F7, run, b>>]
                 ELSE [i |-> st.i + 1, out |-> Append(st.out, b)]

\* f7_compress; trace is the sequence of loop states [i, out] visited
f7_compress(data) ==
    LET Cont(tr) == Last(tr).i < Len(data)
        Step(tr) == Append(tr, F7CompressStep(data, Last(tr)))
        trace    == While(Cont, Step, <<F7Init>>, Len(data))
    IN  [status |-> "ok", value |-> Last(trace).out, trace |-> trace]

\* the lookahead loop with the `i += 3` of the escape branch left out
F7DecompressStepStuck(data, st) ==
    LET end == Len(data) - 3
        b0  == At(data, st.i)
        b1  == At(data, st.i + 1)
        b2  == At(data, st.i + 2)
    IN  IF b0 = F7 /\ b1 = 1 /\ b2 = F7
        THEN [i |-> st.i, out |-> Append(st.out, F7)]
        ELSE IF b0 = F7 /\ b1 > 2
        THEN [i |-> st.i + 3, out |-> st.out \o Repeat(b2, b1)]
        ELSE [i   |-> st.i + 1,
              out |-> IF st.i = end THEN st.out \o <<b0, b1, b2>>
                                    ELSE Append(st.out, b0)]

\* one iteration of f7_decompress's lookahead loop (i <= end), st = [i, out]
F7DecompressStep(data, st) ==
    LET end == Len(data) - 3
        b0  == At(data, st.i)
        b1  == At(data, st.i + 1)
        b2  == At(data, st.i + 2)
    IN  IF b0 = F7 /\ b1 = 1 /\ b2 = F7
        THEN [i |-> st.i + 3, out |-> Append(st.out, F7)]
        ELSE IF b0 = F7 /\ b1 > 2
        THEN [i |-> st.i + 3, out |-> st.out \o Repeat(b2, b1)]
        ELSE [i   |-> st.i + 1,
              out |-> IF st.i = end THEN st.out \o <<b0, b1, b2>>
                                    ELSE Append(st.out, b0)]

\* the trailing loop of f7_decompress: the bytes from i on are appended
F7DecompressTail(data, st) ==
    IF st.i < Len(data) THEN st.out \o SubSeq(data, st.i + 1, Len(data)) ELSE st.out

\* f7_decompress; trace is the sequence of lookahead-loop states visited
f7_decompress(data) ==
    LET Cont(tr) == Last(tr).i <= Len(data) - 3
        Step(tr) == Append(tr, F7DecompressStep(data, Last(tr)))
        trace    == While(Cont, Step, <<F7Init>>, Len(data))
    IN  [status |-> "ok",
         value  |-> F7DecompressTail(data, Last(trace)),
         trace  |-> trace]

(***************************************************************************)
(* HSQ decoder.                                                            *)
(***************************************************************************)
\* the header length
HsqHeaderLen == 6

\* the largest value of a 16-bit header field, the 0xFFFF of the masks
U16Max == 65535

\* struct.unpack_from('<H', data, off): raises struct.error unless two bytes
\* are there
unpack_u16(data, off) ==
    IF off + 2 > Len(data)
    THEN [ok |-> FALSE, err |-> "struct.error", val |-> 0]
    ELSE [ok |-> TRUE, err |-> "", val |-> At(data, off) + 256 * At(data, off + 1)]

\* the result of a read: on success the value and the advanced cursor, on
\* failure the exception, the offset its message names and the cursor
ReadOk(val, pos) == [ok |-> TRUE, err |-> "", at |-> pos, val |-> val, pos |-> pos]

ReadFail(err, at, pos) == [ok |-> FALSE, err |-> err, at |-> at, val |-> 0, pos |-> pos]

read_u8(data, pos) ==
    IF pos >= Len(data)
    THEN ReadFail("ValueError", pos, pos)
    ELSE ReadOk(At(data, pos), pos + 1)

\* read_u16 with the end test of read_u8: with one byte left the unpack fails
read_u16_off_by_one(data, pos) ==
    IF pos >= Len(data)
    THEN ReadFail("ValueError", pos, pos)
    ELSE LET u == unpack_u16(data, pos)
         IN  IF u.ok THEN ReadOk(u.val, pos + 2) ELSE ReadFail(u.err, pos, pos)

read_u16(data, pos) ==
    IF pos + 1 >= Len(data)
    THEN ReadFail("ValueError", pos, pos)
    ELSE LET u == unpack_u16(data, pos)
         IN  IF u.ok THEN ReadOk(u.val, pos + 2) ELSE ReadFail(u.err, pos, pos)

\* get_bit with a refill that plants no sentinel bit
get_bit_no_sentinel(data, pos, queue) ==
    LET bit == queue % 2
        q   == queue \div 2
    IN  IF q # 0
        THEN [ok |-> TRUE, err |-> "", at |-> pos, bit |-> bit, queue |-> q, pos |-> pos,
              shifted |-> q, word |-> -1]
        ELSE LET r == read_u16(data, pos)
             IN  IF r.ok
                 THEN [ok |-> TRUE, err |-> "", at |-> pos, bit |-> r.val % 2,
                       queue |-> r.val \div 2, pos |-> r.pos,
                       shifted |-> q, word |-> r.val]
                 ELSE [ok |-> FALSE, err |-> r.err, at |-> r.at, bit |-> bit,
                       queue |-> q, pos |-> r.pos, shifted |-> q, word |-> -1]

\* get_bit with the sentinel planted at bit 7: a word gives 8 bits
get_bit_byte_queue(data, pos, queue) ==
    LET bit == queue % 2
        q   == queue \div 2
    IN  IF q # 0
        THEN [ok |-> TRUE, err |-> "", at |-> pos, bit |-> bit, queue |-> q, pos |-> pos,
              shifted |-> q, word |-> -1]
        ELSE LET r == read_u16(data, pos)
             IN  IF r.ok
                 THEN [ok |-> TRUE, err |-> "", at |-> pos, bit |-> r.val % 2,
                       queue |-> 128 + ((r.val \div 2) % 128), pos |-> r.pos,
                       shifted |-> q, word |-> r.val]
                 ELSE [ok |-> FALSE, err |-> r.err, at |-> r.at, bit |-> bit,
                       queue |-> q, pos |-> r.pos, shifted |-> q, word |-> -1]

\* get_bit with the sentinel planted at bit 14, one place too low
get_bit_sentinel_low(data, pos, queue) ==
    LET bit == queue % 2
        q   == queue \div 2
    IN  IF q # 0
        THEN [ok |-> TRUE, err |-> "", at |-> pos, bit |-> bit, queue |-> q, pos |-> pos,
              shifted |-> q, word |-> -1]
        ELSE LET r == read_u16(data, pos)
             IN  IF r.ok
                 THEN [ok |-> TRUE, err |-> "", at |-> pos, bit |-> r.val % 2,
                       queue |-> 16384 + ((r.val \div 2) % 16384), pos |-> r.pos,
                       shifted |-> q, word |-> r.val]
                 ELSE [ok |-> FALSE, err |-> r.err, at |-> r.at, bit |-> bit,
                       queue |-> q, pos |-> r.pos, shifted |-> q, word |-> -1]

\* get_bit: [ok, err, at, bit, queue, pos], and as history shifted, the
\* queue right after `queue >>= 1`, and word, the control word the call read
\* (-1 if it read none)
get_bit(data, pos, queue) ==
    LET bit == queue % 2
        q   == queue \div 2
    IN  IF q # 0
        THEN [ok |-> TRUE, err |-> "", at |-> pos, bit |-> bit, queue |-> q, pos |-> pos,
              shifted |-> q, word |-> -1]
        ELSE LET r == read_u16(data, pos)
             IN  IF r.ok
                 THEN [ok |-> TRUE, err |-> "", at |-> pos, bit |-> r.val % 2,
                       queue |-> 32768 + (r.val \div 2), pos |-> r.pos,
                       shifted |-> q, word |-> r.val]
                 ELSE [ok |-> FALSE, err |-> r.err, at |-> r.at, bit |-> bit,
                       queue |-> q, pos |-> r.pos, shifted |-> q, word |-> -1]

\* out[idx] of a bytearray: a negative idx counts from the end, and an idx
\* outside -len..len-1 raises IndexError
PyIndexOk(out, idx) == idx < Len(out) /\ idx >= -Len(out)

PyIndex(out, idx) == IF idx >= 0 THEN out[idx + 1] ELSE out[Len(out) + idx + 1]

\* the copy made as one block: the slice out[dst + offset : dst + offset + n]
\* as it is before the copy, appended whole
CopyRefBlock(out, offset, n) ==
    LET dst == Len(out)
    IN  IF dst + offset >= 0
        THEN [ok |-> TRUE, i |-> n,
              out |-> out \o SubSeq(out, dst + offset + 1, Min(dst + offset + n, dst))]
        ELSE [ok |-> FALSE, i |-> 0, out |-> out]

\* for i in range(n): out.append(out[dst + offset + i]), dst = len(out) at entry
CopyRef(out, offset, n) ==
    LET dst      == Len(out)
        Cont(c)  == c.ok /\ c.i < n
        Step(c)  == IF PyIndexOk(c.out, dst + offset + c.i)
                    THEN [ok |-> TRUE, i |-> c.i + 1,
                          out |-> Append(c.out, PyIndex(c.out, dst + offset + c.i))]
                    ELSE [c EXCEPT !.ok = FALSE]
    IN  While(Cont, Step, [ok |-> TRUE, i |-> 0, out |-> out], n)

(* The decoder's state between two iterations of `while True`: the cursor   *)
(* pos, the bit queue, the output, and status: "run", or how the loop       *)
(* ended: "full" (the break of the literal branch), "eof" (the break at the *)
(* EOF marker), or the exception raised.  need, err_at and badref are       *)
(* history: the read that raised ("bit", "u8" or "u16") with the offset of  *)
(* its message, whether a back-reference was executed whose source start    *)
(* dst + offset was below 0, and refs, the back-references executed, each   *)
(* with dst = len(out) at its start, its offset and its number of bytes,    *)
(* and bits, the calls of get_bit that returned, in order, each with the    *)
(* queue it found, the queue after its shift, the word it read (-1 if       *)
(* none), the bit it returned and the queue it left; and cmds, the commands  *)
(* decoded, one for each iteration that read its command whole: its kind    *)
(* ("literal", "full" for the break of the literal branch, "short", "long", *)
(* "eof"), the number of get_bit calls made up to its last control bit, the *)
(* length of the output before it, the position at of the raw byte or word  *)
(* it read after its control bits and its value raw, the extra count byte   *)
(* read (-1 if none), and the count and the offset computed.                *)
DecInit ==
    [pos |-> HsqHeaderLen, queue |-> 0, out |-> <<>>, status |-> "run",
     need |-> "", err_at |-> -1, badref |-> FALSE, refs |-> <<>>, bits |-> <<>>,
     cmds |-> <<>>]

\* the decoder's state with a decoded command added to the history
DecNote(st, kind, at, raw, extra, count, offset) ==
    [st EXCEPT !.cmds = Append(@, [kind |-> kind, bits |-> Len(st.bits), len |-> Len(st.out),
                                   at |-> at, raw |-> raw, extra |-> extra,
                                   count |-> count, offset |-> offset])]

\* the decoder's state with a returned call g of get_bit, made on the queue
\* before, added to the history
DecTook(st, before, g) ==
    [st EXCEPT !.bits = Append(@, [before |-> before, shifted |-> g.shifted,
                                   word |-> g.word, bit |-> g.bit, after |-> g.queue])]

DecRaise(st, r, queue, need) ==
    [st EXCEPT !.status = r.err, !.err_at = r.at, !.pos = r.pos,
               !.queue = queue, !.need = need]

\* the copy of a back-reference of count + 2 bytes, after its fields are read
DecCopy(st, pos, queue, offset, count) ==
    LET c == CopyRef(st.out, offset, count + 2)
        b == st.badref \/ Len(st.out) + offset < 0
        r == Append(st.refs, [dst |-> Len(st.out), offset |-> offset, n |-> count + 2])
    IN  IF c.ok
        THEN [st EXCEPT !.pos = pos, !.queue = queue, !.out = c.out, !.badref = b,
                        !.refs = r]
        ELSE [st EXCEPT !.pos = pos, !.queue = queue, !.status = "IndexError",
                        !.badref = b, !.refs = r]

\* the long back-reference branch, entered with cursor pos and queue
DecLong(data, st, pos, queue) ==
    LET w == read_u16(data, pos)
    IN  IF ~w.ok THEN DecRaise(st, w, queue, "u16")
        ELSE LET count  == w.val % 8
                 offset == (w.val \div 8) - 8192
                 x      == IF count = 0 THEN read_u8(data, w.pos) ELSE ReadOk(count, w.pos)
                 extra  == IF count = 0 THEN x.val ELSE -1
             IN  IF ~x.ok THEN DecRaise(st, x, queue, "u8")
                 ELSE IF x.val = 0
                 THEN [DecNote(st, "eof", pos, w.val, extra, x.val, offset)
                          EXCEPT !.pos = x.pos, !.queue = queue, !.status = "eof"]
                 ELSE DecCopy(DecNote(st, "long", pos, w.val, extra, x.val, offset),
                              x.pos, queue, offset, x.val)

\* the short branch taking its first count bit as the low one
DecShortLowFirst(data, st, pos, queue) ==
    LET b0 == get_bit(data, pos, queue)
    IN  IF ~b0.ok THEN DecRaise(st, b0, b0.queue, "bit")
        ELSE LET b1 == get_bit(data, b0.pos, b0.queue)
                 s0 == DecTook(st, queue, b0)
             IN  IF ~b1.ok THEN DecRaise(s0, b1, b1.queue, "bit")
                 ELSE LET count == b0.bit + 2 * b1.bit
                          o     == read_u8(data, b1.pos)
                          s1    == DecTook(s0, b0.queue, b1)
                      IN  IF ~o.ok THEN DecRaise(s1, o, b1.queue, "u8")
                          ELSE DecCopy(DecNote(s1, "short", b1.pos, o.val, -1, count,
                                               o.val - 256),
                                       o.pos, b1.queue, o.val - 256, count)

\* the short back-reference branch
DecShort(data, st, pos, queue) ==
    LET b0 == get_bit(data, pos, queue)
    IN  IF ~b0.ok THEN DecRaise(st, b0, b0.queue, "bit")
        ELSE LET b1 == get_bit(data, b0.pos, b0.queue)
                 s0 == DecTook(st, queue, b0)
             IN  IF ~b1.ok THEN DecRaise(s0, b1, b1.queue, "bit")
                 ELSE LET count == 2 * b0.bit + b1.bit
                          o     == read_u8(data, b1.pos)
                          s1    == DecTook(s0, b0.queue, b1)
                      IN  IF ~o.ok THEN DecRaise(s1, o, b1.queue, "u8")
                          ELSE DecCopy(DecNote(s1, "short", b1.pos, o.val, -1, count,
                                               o.val - 256),
                                       o.pos, b1.queue, o.val - 256, count)

\* one iteration of hsq_decompress's `while True`
DecStep(data, decomp_size, st) ==
    LET g1 == get_bit(data, st.pos, st.queue)
        s1 == DecTook(st, st.queue, g1)
    IN  IF ~g1.ok THEN DecRaise(st, g1, g1.queue, "bit")
        ELSE IF g1.bit # 0
        THEN IF Len(st.out) >= decomp_size
             THEN [DecNote(s1, "full", g1.pos, -1, -1, 0, 0)
                      EXCEPT !.pos = g1.pos, !.queue = g1.queue, !.status = "full"]
             ELSE LET r == read_u8(data, g1.pos)
                  IN  IF ~r.ok THEN DecRaise(s1, r, g1.queue, "u8")
                      ELSE [DecNote(s1, "literal", g1.pos, r.val, -1, 0, 0)
                               EXCEPT !.pos = r.pos, !.queue = g1.queue,
                                      !.out = Append(st.out, r.val)]
        ELSE LET g2 == get_bit(data, g1.pos, g1.queue)
                 s2 == DecTook(s1, g1.queue, g2)
             IN  IF ~g2.ok THEN DecRaise(s1, g2, g2.queue, "bit")
                 ELSE IF g2.bit # 0
                 THEN DecLong(data, s2, g2.pos, g2.queue)
                 ELSE DecShort(data, s2, g2.pos, g2.queue)

\* the end of hsq_decompress: bytes(out[:decomp_size]) after either break,
\* or the exception passed on
DecReturn(decomp_size, final) ==
    [status      |-> IF final.status \in {"full", "eof"} THEN "ok" ELSE final.status,
     value       |-> IF final.status \in {"full", "eof"}
                     THEN SubSeq(final.out, 1, Min(decomp_size, Len(final.out)))
                     ELSE <<>>,
     decomp_size |-> decomp_size,
     final       |-> final]

\* hsq_decompress with the header validated first: the six header bytes must
\* sum to 0xAB and compressed_size must be the length of the buffer
hsq_decompress_validating(data) ==
    IF Len(data) < HsqHeaderLen
    THEN [status |-> "ValueError", value |-> <<>>, decomp_size |-> -1,
          final |-> [DecInit EXCEPT !.status = "ValueError", !.pos = 0]]
    ELSE IF \/ (data[1] + data[2] + data[3] + data[4] + data[5] + data[6]) % 256 # 171
            \/ unpack_u16(data, 3).val # Len(data) % (U16Max + 1)
    THEN [status |-> "ValueError", value |-> <<>>, decomp_size |-> -1,
          final |-> [DecInit EXCEPT !.status = "ValueError", !.pos = 0]]
    ELSE LET Cont(st)  == st.status = "run"
             Step(st)  == DecStep(data, unpack_u16(data, 0).val, st)
         IN  DecReturn(unpack_u16(data, 0).val,
                       While(Cont, Step, DecInit, 8 * Len(data) + 1))

\* hsq_decompress.  Every iteration takes at least one bit of the body, so
\* 8 * len(data) + 1 bounds the iterations.  The result has the status "ok"
\* with the value returned, or the exception raised; final is the decoder's
\* state when the loop ended.
hsq_decompress(data) ==
    IF Len(data) < HsqHeaderLen
    THEN [status |-> "ValueError", value |-> <<>>, decomp_size |-> -1,
          final |-> [DecInit EXCEPT !.status = "ValueError", !.pos = 0]]
    ELSE LET comp_size == unpack_u16(data, 3).val
             Cont(st)  == st.status = "run"
             Step(st)  == DecStep(data, unpack_u16(data, 0).val, st)
         IN  DecReturn(unpack_u16(data, 0).val,
                       While(Cont, Step, DecInit, 8 * Len(data) + 1))

\* hsq_get_sizes with the compressed size read one byte early
hsq_get_sizes_at_2(data) ==
    IF Len(data) < HsqHeaderLen
    THEN [status |-> "ValueError", value |-> <<>>]
    ELSE [status |-> "ok",
          value  |-> <<unpack_u16(data, 0).val, unpack_u16(data, 2).val, At(data, 2)>>]

\* hsq_get_sizes: (decompressed_size, compressed_size, checksum)
hsq_get_sizes(data) ==
    IF Len(data) < HsqHeaderLen
    THEN [status |-> "ValueError", value |-> <<>>]
    ELSE [status |-> "ok",
          value  |-> <<unpack_u16(data, 0).val, unpack_u16(data, 3).val, At(data, 2)>>]

(***************************************************************************)
(* HSQ encoder.                                                            *)
(***************************************************************************)
\* the hash table's size, 1 << 15
HASH_SIZE == 32768

\* the chain depth searched at one position
MAX_CHAIN == 64

\* the longest match, and the longest a short reference encodes
MaxMatchLen == 257

MaxShortLen == 5

\* the farthest match, and the farthest a short reference reaches
MaxDistance == 8192

MaxShortDistance == 256

\* a ^ b for a, b >= 0
RECURSIVE BitXor(_, _)
BitXor(a, b) ==
    IF a = 0 THEN b
    ELSE IF b = 0 THEN a
    ELSE ((a + b) % 2) + 2 * BitXor(a \div 2, b \div 2)

hash3(data, p) ==
    IF p + 2 >= Len(data) THEN 0
    ELSE BitXor(BitXor(At(data, p) * 1024, At(data, p + 1) * 32), At(data, p + 2))
            % HASH_SIZE

\* head = [-1] * HASH_SIZE
HeadInit == ArrNew(HASH_SIZE, -1)

\* the inner while loop of the search: the length of the match of the bytes
\* at pos with the bytes at match_pos, at most max_len
MatchLen(data, pos, match_pos, max_len) ==
    LET Cont(ml) == ml < max_len /\ At(data, pos + ml) = At(data, match_pos + ml)
        Step(ml) == ml + 1
    IN  While(Cont, Step, 0, max_len)

\* one iteration of the chain walk at pos; c = [match_pos, chain_count,
\* best_len, best_off, brk], brk set by either break, and as history cands,
\* the candidates examined so far, each with its position and the length
\* matched there
ChainStep(data, prev, pos, max_len, c) ==
    LET ml     == MatchLen(data, pos, c.match_pos, max_len)
        better == ml > c.best_len
        seen   == Append(c.cands, [at |-> c.match_pos, ml |-> ml])
        c1     == IF better
                  THEN [c EXCEPT !.best_len = ml, !.best_off = pos - c.match_pos,
                                 !.cands = seen]
                  ELSE [c EXCEPT !.cands = seen]
        next_pos == ArrGet(prev, c.match_pos)
    IN  IF better /\ ml >= max_len
        THEN [c1 EXCEPT !.brk = TRUE]
        ELSE IF next_pos >= c.match_pos
        THEN [c1 EXCEPT !.chain_count = c.chain_count + 1, !.brk = TRUE]
        ELSE [c1 EXCEPT !.chain_count = c.chain_count + 1, !.match_pos = next_pos]

\* the chain walk with a window one byte too wide
ChainWalkWide(data, head, prev, pos, max_len) ==
    LET min_pos  == Max(0, pos - MaxDistance - 1)
        Cont(c)  == ~c.brk /\ c.match_pos >= min_pos /\ c.chain_count < MAX_CHAIN
        Step(c)  == ChainStep(data, prev, pos, max_len, c)
    IN  While(Cont, Step,
              [match_pos |-> ArrGet(head, hash3(data, pos)), chain_count |-> 0,
               best_len |-> 0, best_off |-> 0, brk |-> FALSE, cands |-> <<>>],
              MAX_CHAIN)

\* the chain walk at pos, from the head of pos's bucket
ChainWalk(data, head, prev, pos, max_len) ==
    LET min_pos  == Max(0, pos - MaxDistance)
        Cont(c)  == ~c.brk /\ c.match_pos >= min_pos /\ c.chain_count < MAX_CHAIN
        Step(c)  == ChainStep(data, prev, pos, max_len, c)
    IN  While(Cont, Step,
              [match_pos |-> ArrGet(head, hash3(data, pos)), chain_count |-> 0,
               best_len |-> 0, best_off |-> 0, brk |-> FALSE, cands |-> <<>>],
              MAX_CHAIN)

\* the insertion with the new position linked to itself in every case
HashInsertUnlinked(data, t, p) ==
    LET h == hash3(data, p)
    IN  [head |-> ArrSet(t.head, h, p),
         prev |-> ArrSet(t.prev, p, p),
         ins  |-> Append(t.ins, [p |-> p, prev |-> p])]

\* prev[p] = head[h] if head[h] >= 0 else p; head[h] = p, on
\* t = [head, prev, ins]; ins is history, the insertions of the iteration,
\* each with its position and the value written to prev
HashInsert(data, t, p) ==
    LET h == hash3(data, p)
        m == ArrGet(t.head, h)
    IN  [head |-> ArrSet(t.head, h, p),
         prev |-> ArrSet(t.prev, p, IF m >= 0 THEN m ELSE p),
         ins  |-> Append(t.ins, [p |-> p, prev |-> IF m >= 0 THEN m ELSE p])]

\* the positions inside a reference left out of the hash index
InsertSkippedNone(data, t, pos, n) == t

\* for j in range(1, n): if pos + j + 2 < src_len: insert pos + j
InsertSkipped(data, t, pos, n) ==
    LET Cont(c) == c.j < n
        Step(c) == [j |-> c.j + 1,
                    t |-> IF pos + c.j + 2 < Len(data)
                          THEN HashInsert(data, c.t, pos + c.j)
                          ELSE c.t]
    IN  While(Cont, Step, [j |-> 1, t |-> t], n).t

\* the commands: ('literal', x), ('short', x, y) with x the count bits and y
\* the offset byte, ('long', x) with x the word, ('long_ext', x, y) with x
\* the word and y the extra byte
Cmd(kind, x, y) == [kind |-> kind, x |-> x, y |-> y]

\* the short branch advancing by the match length instead of the clamped one
EmitShortUnclamped(data, e, t, best) ==
    LET use_len == Min(best.best_len, MaxShortLen)
        t1      == InsertSkipped(data, t, e.pos, use_len)
    IN  [pos |-> e.pos + best.best_len, head |-> t1.head, prev |-> t1.prev, ins |-> t1.ins,
         commands |-> Append(e.commands,
                             Cmd("short", use_len - 2, (-best.best_off) % 256))]

\* the short back-reference branch of the scan loop
EmitShort(data, e, t, best) ==
    LET use_len == Min(best.best_len, MaxShortLen)
        t1      == InsertSkipped(data, t, e.pos, use_len)
    IN  [pos |-> e.pos + use_len, head |-> t1.head, prev |-> t1.prev, ins |-> t1.ins,
         commands |-> Append(e.commands,
                             Cmd("short", use_len - 2, (-best.best_off) % 256))]

\* the long branch with the inline count used up to 8, where it no longer
\* fits the word's low 3 bits
EmitLongWideCount(data, e, t, best) ==
    LET offset_13  == ((-best.best_off) + 8192) % 8192
        copy_count == best.best_len - 2
        t1         == InsertSkipped(data, t, e.pos, best.best_len)
        cmd        == IF 1 <= copy_count /\ copy_count <= 8
                      THEN Cmd("long", (offset_13 * 8 + copy_count) % (U16Max + 1), 0)
                      ELSE Cmd("long_ext", offset_13 * 8, copy_count % 256)
    IN  [pos |-> e.pos + best.best_len, head |-> t1.head, prev |-> t1.prev, ins |-> t1.ins,
         commands |-> Append(e.commands, cmd)]

\* the long back-reference branch of the scan loop
EmitLong(data, e, t, best) ==
    LET offset_13  == ((-best.best_off) + 8192) % 8192
        copy_count == best.best_len - 2
        t1         == InsertSkipped(data, t, e.pos, best.best_len)
        cmd        == IF 1 <= copy_count /\ copy_count <= 7
                      THEN Cmd("long", offset_13 * 8 + copy_count, 0)
                      ELSE Cmd("long_ext", offset_13 * 8, copy_count % 256)
    IN  [pos |-> e.pos + best.best_len, head |-> t1.head, prev |-> t1.prev, ins |-> t1.ins,
         commands |-> Append(e.commands, cmd)]

\* the search of one iteration of the scan loop: best_len and best_off
ScanSearch(data, e) ==
    IF e.pos + 2 < Len(data)
    THEN ChainWalk(data, e.head, e.prev, e.pos, Min(Len(data) - e.pos, MaxMatchLen))
    ELSE [best_len |-> 0, best_off |-> 0, cands |-> <<>>]

\* the insertion of pos into its hash chain after the search; the else
\* branch of `if pos + 2 < src_len` repeats the test and inserts nothing
ScanInsert(data, e) ==
    IF e.pos + 2 < Len(data)
    THEN HashInsert(data, [head |-> e.head, prev |-> e.prev, ins |-> <<>>], e.pos)
    ELSE IF e.pos + 2 < Len(data)
    THEN HashInsert(data, [head |-> e.head, prev |-> e.prev, ins |-> <<>>], e.pos)
    ELSE [head |-> e.head, prev |-> e.prev, ins |-> <<>>]

\* the encoding decision with the long reference tried first
ScanBranchLongFirst(data, e, t, best) ==
    IF best.best_len >= 3
    THEN EmitLong(data, e, t, best)
    ELSE IF best.best_off <= MaxShortDistance /\ best.best_len >= 2
    THEN EmitShort(data, e, t, best)
    ELSE [pos |-> e.pos + 1, head |-> t.head, prev |-> t.prev, ins |-> t.ins,
          commands |-> Append(e.commands, Cmd("literal", At(data, e.pos), 0))]

\* the encoding decision, on the tables t after the insertion
ScanBranch(data, e, t, best) ==
    IF best.best_off <= MaxShortDistance /\ best.best_len >= 2
    THEN EmitShort(data, e, t, best)
    ELSE IF best.best_len >= 3
    THEN EmitLong(data, e, t, best)
    ELSE [pos |-> e.pos + 1, head |-> t.head, prev |-> t.prev, ins |-> t.ins,
          commands |-> Append(e.commands, Cmd("literal", At(data, e.pos), 0))]

\* the state r after an iteration, with the iteration added to the steps
ScanNote(e, best, r) ==
    [pos |-> r.pos, head |-> r.head, prev |-> r.prev, commands |-> r.commands,
     steps |-> Append(e.steps, [pos |-> e.pos, best_off |-> best.best_off,
                                best_len |-> best.best_len,
                                cmd |-> Last(r.commands), next_pos |-> r.pos,
                                cands |-> best.cands, ins |-> r.ins])]

ScanDecide(data, e, best) == ScanNote(e, best, ScanBranch(data, e, ScanInsert(data, e), best))

\* one iteration of the scan loop `while pos < src_len`, on
\* e = [pos, head, prev, commands, steps]; steps is history, one entry for
\* each command appended: the pos it was appended at, the best_off and
\* best_len of the search there, the command, the pos after it, the
\* candidates the search examined and the insertions the iteration made
ScanStep(data, e) == ScanDecide(data, e, ScanSearch(data, e))

\* the command list closed by the EOF marker, with the steps
ScanClose(e) ==
    [commands |-> Append(e.commands, Cmd("long_ext", 0, 0)), steps |-> e.steps]

\* the locals before the scan loop: empty tables, no command, pos = 0
ScanInit(data) ==
    [pos |-> 0, head |-> HeadInit, prev |-> ArrNew(Len(data), 0),
     commands |-> <<>>, steps |-> <<>>]

\* the scan loop and the EOF marker
ScanCommands(data) ==
    LET Cont(e) == e.pos < Len(data)
        Step(e) == ScanStep(data, e)
    IN  ScanClose(While(Cont, Step, ScanInit(data), Len(data)))

(***************************************************************************)
(* BitWriter, on w = [stream, word_bits, word_pos].                        *)
(***************************************************************************)
BitWriterInit == [stream |-> <<>>, word_bits |-> <<>>, word_pos |-> -1]

\* sum of bits[i] << i over the bits of the word
RECURSIVE BitsValue(_)
BitsValue(bits) == IF bits = <<>> THEN 0 ELSE bits[1] + 2 * BitsValue(Tail(bits))

start_word(w) ==
    [stream |-> w.stream \o <<0, 0>>, word_bits |-> <<>>, word_pos |-> Len(w.stream)]

\* the padding appends zero bits, which add nothing to the value
flush_word(w) ==
    IF w.word_pos < 0 THEN w
    ELSE LET word == BitsValue(SubSeq(w.word_bits, 1, Min(Len(w.word_bits), 16)))
         IN  [stream    |-> SetAt(SetAt(w.stream, w.word_pos, word % 256),
                                  w.word_pos + 1, word \div 256),
              word_bits |-> <<>>,
              word_pos  |-> -1]

\* write_bit reserving the next word as soon as a word is full, not when
\* the next bit comes
write_bit_eager(w, b) ==
    LET w1 == IF w.word_pos < 0 THEN start_word(w) ELSE w
        w2 == [w1 EXCEPT !.word_bits = Append(w1.word_bits, b % 2)]
    IN  IF Len(w2.word_bits) >= 16 THEN start_word(flush_word(w2)) ELSE w2

write_bit(w, b) ==
    LET w1 == IF w.word_pos < 0 \/ Len(w.word_bits) >= 16
              THEN start_word(flush_word(w))
              ELSE w
    IN  [w1 EXCEPT !.word_bits = Append(w1.word_bits, b % 2)]

write_byte(w, b) == [w EXCEPT !.stream = Append(w.stream, b % 256)]

write_word(w, x) ==
    [w EXCEPT !.stream = w.stream \o <<(x % (U16Max + 1)) % 256, (x % (U16Max + 1)) \div 256>>]

\* finish without the flush of the last, partial word
finish_unflushed(w) == w.stream

finish(w) == IF w.word_pos >= 0 THEN flush_word(w).stream ELSE w.stream

\* the body of `for cmd in commands`
WriteCommand(w, cmd) ==
    IF cmd.kind = "literal"
    THEN write_byte(write_bit(w, 1), cmd.x)
    ELSE IF cmd.kind = "short"
    THEN write_byte(write_bit(write_bit(write_bit(write_bit(w, 0), 0),
                                        (cmd.x \div 2) % 2), cmd.x % 2), cmd.y)
    ELSE IF cmd.kind = "long"
    THEN write_word(write_bit(write_bit(w, 0), 1), cmd.x)
    ELSE write_byte(write_word(write_bit(write_bit(w, 0), 1), cmd.x), cmd.y)

\* the compressed body of a command list
EncodeCommands(commands) ==
    LET Cont(c) == c.k <= Len(commands)
        Step(c) == [k |-> c.k + 1, w |-> WriteCommand(c.w, commands[c.k])]
    IN  finish(While(Cont, Step, [k |-> 1, w |-> BitWriterInit], Len(commands)).w)

\* the header with byte 5 solved without the high bytes of the two sizes
HsqHeaderLowBytes(decomp_size, comp_size) ==
    LET h0 == (decomp_size % (U16Max + 1)) % 256
        h1 == (decomp_size % (U16Max + 1)) \div 256
        h3 == (comp_size % (U16Max + 1)) % 256
        h4 == (comp_size % (U16Max + 1)) \div 256
    IN  <<h0, h1, 0, h3, h4, (171 - h0 - h3) % 256>>

\* the 6 header bytes: the sizes masked to 16 bits, byte 2 = 0, and byte 5
\* solved so that the six bytes sum to 0xAB modulo 256
HsqHeader(decomp_size, comp_size) ==
    LET h0 == (decomp_size % (U16Max + 1)) % 256
        h1 == (decomp_size % (U16Max + 1)) \div 256
        h2 == 0
        h3 == (comp_size % (U16Max + 1)) % 256
        h4 == (comp_size % (U16Max + 1)) \div 256
    IN  <<h0, h1, h2, h3, h4, (171 - h0 - h1 - h2 - h3 - h4) % 256>>

\* the header and the body joined: the buffer returned
HsqPack(decomp_size, body, scan) ==
    [status |-> "ok", value |-> HsqHeader(decomp_size, HsqHeaderLen + Len(body)) \o body,
     commands |-> scan.commands, steps |-> scan.steps]

HsqPackScan(data, scan) == HsqPack(Len(data), EncodeCommands(scan.commands), scan)

\* hsq_compress: it has no raise, every call returns.  commands is the
\* command list of the general path (empty on the empty-input path) and
\* steps the scan steps that appended them.
hsq_compress(data) ==
    IF Len(data) = 0
    THEN HsqPack(0, <<2, 0>> \o <<0, 0>> \o <<0>>, [commands |-> <<>>, steps |-> <<>>])
    ELSE HsqPackScan(data, ScanCommands(data))

(***************************************************************************)
(* The buffers the callers hand in.                                        *)
(***************************************************************************)
\* 0x01 (escape count), 0x02 (a count that is no run), 0x04 (a run count),
\* 0xAA (a plain byte) and the control byte
F7Bytes == {1, 2, 4, 170, F7}

F7Buffers == SeqsUpTo(F7Bytes, MaxF7Len)

\* runs of one byte at and past the cap of 255, alone and followed by
\* another byte
F7RunBuffers ==
    {(<<>> \o Repeat(v, F7MaxRun + k)) \o t :
        v \in {1, 170}, k \in 0..MaxF7Len, t \in {<<>>, <<2>>}}

F7CompressArgs == F7Buffers \cup F7RunBuffers

\* plain data for hsq_compress: every short buffer over three byte values,
\* and periodic buffers long enough for references at distances 256 and 257,
\* for long references with and without the extra byte, and for control
\* bits that fill more than one word
PlainBytes == {0, 1, 255}

Periodic(p, n) == <<>> \o [i \in 1..n |-> ((i - 1) % p) % 256]

PeriodicBuffers ==
    {Periodic(p, p + k) : p \in {1, 256, 257}, k \in {3 + PeriodicTail, 20 + PeriodicTail}}

\* the bytes 0..255 followed by the pair 0, 1 again, 256 bytes after its
\* first occurrence, at the end of the buffer and before a byte that does
\* not follow the first occurrence
PairRepeatBuffers == {Periodic(MaxShortDistance, MaxShortDistance + 2) \o t : t \in {<<>>, <<77>>}}

\* the 16-bit numbers 0, 1, 2, ... high byte first: no three bytes occur
\* twice in them
Counter16Byte(i) == IF i % 2 = 0 THEN (i \div 2) \div 256 ELSE (i \div 2) % 256

\* buffers whose only repeats lie at the far end of the window and past it
\* (the counter bytes repeated with period 8192 and 8193), and a buffer
\* with a repeat longer than the longest match
WindowBuffers ==
    {<<>> \o [i \in 1..(p + 3 + PeriodicTail) |-> Counter16Byte((i - 1) % p)] :
        p \in {MaxDistance, MaxDistance + 1}}
        \cup {Periodic(MaxShortDistance + 1, MaxShortDistance + 1 + MaxMatchLen + 3 + PeriodicTail)}

\* a buffer with two 3-byte groups of one hash that share their first byte
\* only (00 00 20 and 00 01 00), followed by a run of 8 equal bytes
CollisionBuffers == {<<0, 0, 32, 0, 1, 0>> \o (<<>> \o Repeat(7, 8))}

\* a buffer whose first 9 bytes come again 257 bytes on, before a byte that
\* ends the match, and whose first 10 bytes come again after that, before a
\* run of 5 equal bytes
LongCountBuffers ==
    {Periodic(MaxShortDistance + 1, MaxShortDistance + 1 + 9) \o <<200>>
        \o Periodic(MaxShortDistance + 1, 10) \o <<201, 201, 201, 201, 201>>}

\* groups of 4 bytes, 01 02 03 and a byte of its own, more of them than the
\* chain walk's depth: the groups share one hash bucket and match each other
\* on 3 bytes only
DeepChainGroups == MAX_CHAIN + 6

DeepChainBuffers ==
    {<<>> \o [i \in 1..(4 * DeepChainGroups) |->
                IF (i - 1) % 4 = 3 THEN 10 + ((i - 1) \div 4) ELSE 1 + ((i - 1) % 4)]}

\* a buffer whose last 6 bytes match 3 bytes at the nearest earlier
\* occurrence of their first three and 5 bytes at each of the two before it
TieBuffers ==
    {<<1, 2, 3, 4, 5, 9>> \o <<1, 2, 3, 4, 5, 8>> \o <<1, 2, 3, 7>> \o <<1, 2, 3, 4, 5, 6>>}

PlainBuffers ==
    SeqsUpTo(PlainBytes, MaxPlainLen) \cup PeriodicBuffers \cup PairRepeatBuffers
        \cup WindowBuffers \cup CollisionBuffers \cup LongCountBuffers
        \cup DeepChainBuffers \cup TieBuffers

\* streams for hsq_decompress: a header declaring 0..MaxDeclared bytes, and
\* every body over byte values that make literals (0xFF, 0x21), short
\* references (0x00, 0x21; offset bytes 0xFE, 0xFF), long references and
\* EOF markers (0x02, 0xFE as control bits; 0xFE 0xFF, 0xFF 0xFF and 0x00 0x00
\* as words)
StreamBytes == {0, 2, 33, 254, 255}

HsqStreams ==
    {<<n, 0, 0, 0, 0, 0>> \o body :
        n \in 0..MaxDeclared, body \in SeqsUpTo(StreamBytes, MaxBodyLen)}

\* streams whose back-references overlap their own output: a literal and a
\* short or a long reference of 5 bytes at offset -1, and two literals and a
\* short reference of 5 bytes at offset -2, each closed by the EOF marker
SelfOverlapStreams ==
    {<<6, 0, 0, 0, 0, 0>> \o <<89, 0, b, 255, 0, 0, 0>> : b \in {0, 65}}
        \cup {<<6, 0, 0, 0, 0, 0>> \o <<21, 0, b, 251, 255, 0, 0, 0>> : b \in {0, 65}}
        \cup {<<7, 0, 0, 0, 0, 0>> \o <<179, 0, 65, b, 254, 0, 0, 0>> : b \in {65, 66}}

\* the minimal streams: the header 02 00 00 08 00 <checksum>, and a body of
\* two literal bytes and the EOF marker
MinimalStreams ==
    {HsqHeader(2, 8) \o <<11, 0, b1, b2, 0, 0, 0>> : b1 \in {0, 65, 255}, b2 \in {0, 65, 255}}

\* streams whose first control word is 0x0001, its bits 1..15 all 0: a
\* literal and four short references of 2 bytes at offset -1, the last of
\* them with its second count bit in the next word, and the EOF marker
SparseWordStreams ==
    {<<9, 0, 0, 0, 0, 0>> \o <<1, 0, b, 255, 255, 255, 4, 0, 255, 0, 0, 0>> : b \in {0, 65}}

FixtureStreams == SelfOverlapStreams \cup MinimalStreams \cup SparseWordStreams

\* buffers for hsq_get_sizes: six header bytes and up to MaxBodyLen - 4 more
HeaderProbes ==
    {h \o t : h \in [1..HsqHeaderLen -> {1, 255}],
              t \in SeqsUpTo({0, 254}, MaxBodyLen - 4)}

\* a buffer one byte too long for the header's 16-bit size field
OversizeBuffers == {Periodic(257, U16Max + 1)}

\* a buffer below the limit that no reference shortens: the counter bytes;
\* its 58246 bytes are the fewest whose literals, control words and EOF marker
\* make more than 65535 bytes with the header
Counter16(n) == <<>> \o [i \in 1..n |-> Counter16Byte(i - 1)]

IncompressibleBuffers == {Counter16(58246)}

HsqCompressArgs == PlainBuffers \cup OversizeBuffers \cup IncompressibleBuffers

HsqDecompressArgs == HsqStreams \cup FixtureStreams \cup SeqsUpTo(PlainBytes, MaxPlainLen)

HsqGetSizesArgs == HeaderProbes \cup SeqsUpTo(PlainBytes, MaxPlainLen)

Inputs == F7CompressArgs \cup PlainBuffers \cup HsqStreams \cup FixtureStreams \cup HeaderProbes

(***************************************************************************)
(* The calls.  calls is the sequence of calls made so far, each with its   *)
(* argument and what it returned or raised; a second call is applied to    *)
(* the buffer the first one returned.                                      *)
(***************************************************************************)
Call(fn, arg, r) == [fn |-> fn, arg |-> arg] @@ r

Init ==
    /\ input \in Inputs
    /\ calls = <<>>
    /\ frames = <<>>

HsqCompressCall ==
    /\ calls = <<>>
    /\ input \in HsqCompressArgs
    /\ calls' = <<Call("hsq_compress", input, hsq_compress(input))>>
    /\ UNCHANGED <<input, frames>>

HsqDecompressCall ==
    /\ \/ calls = <<>> /\ input \in HsqDecompressArgs
       \/ Len(calls) = 1 /\ calls[1].fn = "hsq_compress"
    /\ LET arg == IF calls = <<>> THEN input ELSE calls[1].value
       IN  calls' = Append(calls, Call("hsq_decompress", arg, hsq_decompress(arg)))
    /\ UNCHANGED <<input, frames>>

HsqGetSizesCall ==
    /\ \/ calls = <<>> /\ input \in HsqGetSizesArgs
       \/ Len(calls) = 1 /\ calls[1].fn = "hsq_compress"
    /\ LET arg == IF calls = <<>> THEN input ELSE calls[1].value
       IN  calls' = Append(calls, Call("hsq_get_sizes", arg, hsq_get_sizes(arg)))
    /\ UNCHANGED <<input, frames>>

F7CompressCall ==
    /\ calls = <<>>
    /\ input \in F7CompressArgs
    /\ calls' = <<Call("f7_compress", input, f7_compress(input))>>
    /\ UNCHANGED <<input, frames>>

F7DecompressCall ==
    /\ \/ calls = <<>> /\ input \in F7Buffers
       \/ Len(calls) = 1 /\ calls[1].fn = "f7_compress"
    /\ LET arg == IF calls = <<>> THEN input ELSE calls[1].value
       IN  calls' = Append(calls, Call("f7_decompress", arg, f7_decompress(arg)))
    /\ UNCHANGED <<input, frames>>

Next ==
    \/ HsqCompressCall
    \/ HsqDecompressCall
    \/ HsqGetSizesCall
    \/ F7CompressCall
    \/ F7DecompressCall

Spec == Init /\ [][Next]_vars

\* the same calls, with the oversize buffers among the inputs
InitOversize ==
    /\ input \in Inputs \cup OversizeBuffers
    /\ calls = <<>>
    /\ frames = <<>>

SpecOversize == InitOversize /\ [][Next]_vars

\* the same calls, with the incompressible buffers among the inputs
InitIncompressible ==
    /\ input \in Inputs \cup IncompressibleBuffers
    /\ calls = <<>>
    /\ frames = <<>>

SpecIncompressible == InitIncompressible /\ [][Next]_vars

(***************************************************************************)
(* Calls that run interleaved.  A frame holds one call in progress: its    *)
(* function, its argument, its locals st (the loop state of the function), *)
(* and, once it has returned or raised, its result.  n counts the frame's  *)
(* steps and overlapped tells whether one of them was taken while another  *)
(* call was in the middle of its run; both are history.  A step of a frame *)
(* is one iteration of the call's loop, or its return.                     *)
(***************************************************************************)
ReentrantCalls ==
    {[fn |-> "f7_compress", arg |-> a] :
        a \in {<<F7>>, <<1, 2>>, <<170, 170, 170, 170, 1>>}}
    \cup {[fn |-> "f7_decompress", arg |-> a] :
        a \in {<<F7, 1, F7>>, <<F7, 4, 170, 1>>, <<1, 2, 4, 170>>}}
    \cup {[fn |-> "hsq_decompress", arg |-> a] :
        a \in {<<1, 2>>, <<2, 0, 0, 8, 0, 161, 11, 0, 65, 255, 0, 0, 0>>,
               <<6, 0, 0, 0, 0, 0, 89, 0, 65, 255, 0, 0, 0>>,
               <<3, 0, 0, 0, 0, 0, 33, 0, 255, 254>>,
               <<2, 0, 0, 0, 0, 0, 3, 0, 65>>}}
    \cup {[fn |-> "hsq_compress", arg |-> a] :
        a \in {<<>>, <<0, 1>>, <<0, 0, 0, 0, 0>>}}

\* the frame of a call at its entry: the locals as the function sets them
FrameInit(c) ==
    [fn |-> c.fn, arg |-> c.arg,
     st |-> IF c.fn \in {"f7_compress", "f7_decompress"} THEN F7Init
            ELSE IF c.fn = "hsq_decompress" THEN DecInit
            ELSE ScanInit(c.arg),
     n |-> 0, overlapped |-> FALSE, done |-> FALSE,
     result |-> [status |-> "", value |-> <<>>]]

\* the locals kept in one place for all the calls of a function
FrameLocalsShared(fr, c) == IF fr[1].fn = fr[c].fn THEN fr[1].st ELSE fr[c].st

\* the locals a call reads and writes: those of its own frame
FrameLocals(fr, c) == fr[c].st

FrameContinue(f, st) == [f EXCEPT !.st = st, !.n = f.n + 1]

FrameReturn(f, r) ==
    [f EXCEPT !.done = TRUE, !.n = f.n + 1,
              !.result = [status |-> r.status, value |-> r.value]]

\* one step of the call of frame f, on the locals st
RunFrame(f, st) ==
    IF f.fn = "f7_compress"
    THEN IF st.i < Len(f.arg)
         THEN FrameContinue(f, F7CompressStep(f.arg, st))
         ELSE FrameReturn(f, [status |-> "ok", value |-> st.out])
    ELSE IF f.fn = "f7_decompress"
    THEN IF st.i <= Len(f.arg) - 3
         THEN FrameContinue(f, F7DecompressStep(f.arg, st))
         ELSE FrameReturn(f, [status |-> "ok", value |-> F7DecompressTail(f.arg, st)])
    ELSE IF f.fn = "hsq_decompress"
    THEN IF Len(f.arg) < HsqHeaderLen
         THEN FrameReturn(f, [status |-> "ValueError", value |-> <<>>])
         ELSE IF st.status = "run"
         THEN FrameContinue(f, DecStep(f.arg, unpack_u16(f.arg, 0).val, st))
         ELSE FrameReturn(f, DecReturn(unpack_u16(f.arg, 0).val, st))
    ELSE IF Len(f.arg) = 0
         THEN FrameReturn(f, hsq_compress(f.arg))
         ELSE IF st.pos < Len(f.arg)
         THEN FrameContinue(f, ScanStep(f.arg, st))
         ELSE FrameReturn(f, HsqPackScan(f.arg, ScanClose(st)))

\* whether a call other than c is in the middle of its run
Overlapped(fr, c) == \E d \in DOMAIN fr : d # c /\ fr[d].n > 0 /\ ~fr[d].done

Resume(c) ==
    /\ c \in DOMAIN frames
    /\ ~frames[c].done
    /\ frames' = [frames EXCEPT
                    ![c] = [RunFrame(frames[c], FrameLocals(frames, c))
                                EXCEPT !.overlapped = @ \/ Overlapped(frames, c)]]
    /\ UNCHANGED <<input, calls>>

InitInterleaved ==
    /\ input = <<>>
    /\ calls = <<>>
    /\ frames \in {<<FrameInit(a), FrameInit(b)>> : a \in ReentrantCalls, b \in ReentrantCalls}

NextInterleaved == \E c \in {1, 2} : Resume(c)

SpecInterleaved == InitInterleaved /\ [][NextInterleaved]_vars

\* each call runs on a thread that is scheduled again as long as it can run:
\* weak fairness of Resume(c).  Resume(c) is enabled exactly when the call c
\* has not returned (its step always counts in frames[c].n), so
\* WF_vars(Resume(c)), that is []<>~ENABLED <<Resume(c)>>_vars \/
\* []<><<Resume(c)>>_vars, is written with frames[c].done for the first
\* disjunct
Scheduled(c) == []<>(frames[c].done) \/ []<><<Resume(c)>>_vars

FairSpecInterleaved == SpecInterleaved /\ Scheduled(1) /\ Scheduled(2)

(***************************************************************************)
(* The scan loop of one call of hsq_compress, iteration by iteration: the  *)
(* frame of the call holds the scan's locals, head and prev among them,    *)
(* between two iterations.                                                 *)
(***************************************************************************)
ScanBuffers ==
    SeqsUpTo(PlainBytes, MaxPlainLen) \cup {Periodic(1, 21)} \cup PairRepeatBuffers
        \cup CollisionBuffers \cup LongCountBuffers \cup DeepChainBuffers
        \cup TieBuffers

InitScan ==
    /\ input = <<>>
    /\ calls = <<>>
    /\ frames \in {<<FrameInit([fn |-> "hsq_compress", arg |-> a])>> : a \in ScanBuffers}

SpecScan == InitScan /\ [][NextInterleaved]_vars

(***************************************************************************)
(* The BitWriter and the decoder's reads, call by call.  The frame holds a *)
(* BitWriter w and ops, the calls made on it (each with its value and, as  *)
(* history, at, the length of the stream when the call was made); after    *)
(* finish() it holds the body, laid behind a header as hsq_compress packs  *)
(* it, the decoder's cursor pos and queue, and got, what the reads made so *)
(* far returned.  The reads are made in the order of the writes.           *)
(***************************************************************************)
\* the values written: both bits, bytes with low and high bits set, a word
\* whose two bytes differ
WrittenBytes == {0, 165}

WrittenWords == {513}

\* the control bits a writer may hold before the calls: none, and enough to
\* end a word within the calls that follow
BitPrefixes == {0, 13, 15, 16, 31}

WriteOp(op, v, w) == [op |-> op, v |-> v, at |-> Len(w.stream)]

\* n calls of write_bit, their values 1, 0, 0, 1, 0, 0, ...
PrefixedWriter(n) ==
    LET Cont(f) == Len(f.ops) < n
        Step(f) == [w   |-> write_bit(f.w, IF Len(f.ops) % 3 = 0 THEN 1 ELSE 0),
                    ops |-> Append(f.ops, WriteOp("bit", IF Len(f.ops) % 3 = 0 THEN 1 ELSE 0, f.w))]
    IN  While(Cont, Step, [w |-> BitWriterInit, ops |-> <<>>], n)

BitWriterFrame(n) ==
    [fn |-> "BitWriter", w |-> PrefixedWriter(n).w, ops |-> PrefixedWriter(n).ops,
     free |-> 0, finished |-> FALSE, body |-> <<>>, data |-> <<>>,
     pos |-> HsqHeaderLen, queue |-> 0, got |-> <<>>]

InitBitIO ==
    /\ input = <<>>
    /\ calls = <<>>
    /\ frames \in {<<BitWriterFrame(n)>> : n \in BitPrefixes}

Writing == frames # <<>> /\ frames[1].fn = "BitWriter" /\ ~frames[1].finished

Written(f, op, v, w) ==
    [f EXCEPT !.w = w, !.ops = Append(@, WriteOp(op, v, f.w)), !.free = @ + 1]

WriteBitCall ==
    /\ Writing /\ frames[1].free < MaxOps
    /\ \E b \in {0, 1} :
          frames' = <<Written(frames[1], "bit", b, write_bit(frames[1].w, b))>>
    /\ UNCHANGED <<input, calls>>

WriteByteCall ==
    /\ Writing /\ frames[1].free < MaxOps
    /\ \E b \in WrittenBytes :
          frames' = <<Written(frames[1], "byte", b, write_byte(frames[1].w, b))>>
    /\ UNCHANGED <<input, calls>>

WriteWordCall ==
    /\ Writing /\ frames[1].free < MaxOps
    /\ \E x \in WrittenWords :
          frames' = <<Written(frames[1], "word", x, write_word(frames[1].w, x))>>
    /\ UNCHANGED <<input, calls>>

\* finish(), and the body packed behind its header
Finished(f, body) ==
    [f EXCEPT !.finished = TRUE, !.body = body,
              !.data = HsqHeader(0, HsqHeaderLen + Len(body)) \o body]

FinishCall ==
    /\ Writing
    /\ frames' = <<Finished(frames[1], finish(frames[1].w))>>
    /\ UNCHANGED <<input, calls>>

\* the next read is due when the write it answers is of the kind op
Reading(op) ==
    /\ frames # <<>> /\ frames[1].fn = "BitWriter" /\ frames[1].finished
    /\ Len(frames[1].got) < Len(frames[1].ops)
    /\ frames[1].ops[Len(frames[1].got) + 1].op = op
    /\ \A i \in DOMAIN frames[1].got : frames[1].got[i].ok

ReadDone(f, r, val, queue) ==
    [f EXCEPT !.pos = r.pos, !.queue = queue,
              !.got = Append(@, [ok |-> r.ok, val |-> val, at |-> f.pos])]

GetBitCall ==
    /\ Reading("bit")
    /\ frames' = <<ReadDone(frames[1],
                            get_bit(frames[1].data, frames[1].pos, frames[1].queue),
                            get_bit(frames[1].data, frames[1].pos, frames[1].queue).bit,
                            get_bit(frames[1].data, frames[1].pos, frames[1].queue).queue)>>
    /\ UNCHANGED <<input, calls>>

ReadU8Call ==
    /\ Reading("byte")
    /\ frames' = <<ReadDone(frames[1], read_u8(frames[1].data, frames[1].pos),
                            read_u8(frames[1].data, frames[1].pos).val, frames[1].queue)>>
    /\ UNCHANGED <<input, calls>>

ReadU16Call ==
    /\ Reading("word")
    /\ frames' = <<ReadDone(frames[1], read_u16(frames[1].data, frames[1].pos),
                            read_u16(frames[1].data, frames[1].pos).val, frames[1].queue)>>
    /\ UNCHANGED <<input, calls>>

NextBitIO ==
    \/ WriteBitCall
    \/ WriteByteCall
    \/ WriteWordCall
    \/ FinishCall
    \/ GetBitCall
    \/ ReadU8Call
    \/ ReadU16Call

SpecBitIO == InitBitIO /\ [][NextBitIO]_vars

(***************************************************************************)
(* Properties.  They speak of the calls made: calls[k].arg is the buffer   *)
(* the k-th call was given, calls[k].status and calls[k].value what it     *)
(* raised or returned.                                                     *)
(***************************************************************************)
Made(k, fn) == k \in DOMAIN calls /\ calls[k].fn = fn

RoundTripDone(enc, dec) == Len(calls) = 2 /\ calls[1].fn = enc /\ calls[2].fn = dec

\* C1: HSQ round trip.  For every buffer of at most 65535 bytes, the empty
\* one included, hsq_decompress applied to what hsq_compress returned for it
\* returns normally, and returns exactly that buffer.
C1_HsqRoundTrip ==
    (RoundTripDone("hsq_compress", "hsq_decompress") /\ Len(input) <= U16Max)
        => /\ calls[1].status = "ok"
           /\ calls[2].arg = calls[1].value
           /\ calls[2].status = "ok"
           /\ calls[2].value = input

\* a round trip through a long reference with an extra byte
C1_Witness ==
    /\ RoundTripDone("hsq_compress", "hsq_decompress")
    /\ calls[2].status = "ok" /\ calls[2].value = input
    /\ \E j \in 1..(Len(calls[1].commands) - 1) : calls[1].commands[j].kind = "long_ext"

\* C2: F7 round trip.  For every buffer x, f7_decompress applied to what
\* f7_compress returned for x returns exactly x.
C2_F7RoundTrip ==
    RoundTripDone("f7_compress", "f7_decompress") => calls[2].value = input

\* C3: exact length.  Whenever hsq_decompress returns normally on an input
\* whose header declares decompressed_size = N, the buffer returned has
\* exactly N bytes.
C3_ExactLength ==
    \A k \in DOMAIN calls :
        (calls[k].fn = "hsq_decompress" /\ calls[k].status = "ok")
            => Len(calls[k].value) = calls[k].decomp_size

\* C4: header checksum.  Every buffer hsq_compress returns, on the empty
\* path and on the general path, has at least 6 bytes, the first 6 sum to
\* 0xAB modulo 256, and byte 2 is 0.
C4_HeaderChecksum ==
    \A k \in DOMAIN calls :
        calls[k].fn = "hsq_compress"
            => LET v == calls[k].value
               IN  /\ calls[k].status = "ok"
                   /\ Len(v) >= 6
                   /\ (v[1] + v[2] + v[3] + v[4] + v[5] + v[6]) % 256 = 171
                   /\ v[3] = 0

\* hsq_compress has returned for a buffer whose size fields need both bytes
C4_Witness ==
    /\ Made(1, "hsq_compress")
    /\ Len(input) > 255 /\ Len(calls[1].value) > 255
    /\ calls[1].value[2] # 0 /\ calls[1].value[5] # 0

\* C5: size limit.  For every input of more than 65535 bytes hsq_compress
\* fails with an error and returns no compressed buffer.
C5_SizeLimit ==
    \A k \in DOMAIN calls :
        (calls[k].fn = "hsq_compress" /\ Len(calls[k].arg) > U16Max)
            => calls[k].status # "ok" /\ calls[k].value = <<>>

\* C6: invalid back-reference.  Whenever hsq_decompress executes a short or
\* long back-reference whose source start len(out) + offset is below 0, the
\* call ends in the codec's error (ValueError) and returns no buffer.
C6_InvalidBackReference ==
    \A k \in DOMAIN calls :
        (calls[k].fn = "hsq_decompress" /\ calls[k].final.badref)
            => calls[k].status = "ValueError" /\ calls[k].value = <<>>

\* C7: truncated stream.  No read of hsq_decompress reaches past the end of
\* the input: a control-word refill or a raw word that finds fewer than two
\* bytes left, or a raw byte that finds none, raises ValueError; the call
\* then returns nothing, and the cursor stays where the failing read found
\* it (the offset the error names).
C7_TruncatedStream ==
    \A k \in DOMAIN calls :
        (calls[k].fn = "hsq_decompress" /\ Len(calls[k].arg) >= HsqHeaderLen)
            => LET f == calls[k].final
                   n == Len(calls[k].arg)
               IN  /\ calls[k].status \in {"ok", "ValueError", "IndexError"}
                   /\ f.pos <= n
                   /\ calls[k].status = "ValueError"
                        => /\ calls[k].value = <<>>
                           /\ f.need \in {"bit", "u8", "u16"}
                           /\ f.err_at = f.pos
                           /\ f.need = "u8" => f.pos = n
                           /\ f.need \in {"bit", "u16"} => f.pos \in {n - 1, n}
                   /\ calls[k].status # "ValueError" => f.need = ""

\* a raw 16-bit word was needed with exactly one byte left
C7_Witness ==
    \E k \in DOMAIN calls :
        /\ calls[k].fn = "hsq_decompress"
        /\ calls[k].status = "ValueError"
        /\ calls[k].final.need = "u16"
        /\ calls[k].final.pos = Len(calls[k].arg) - 1

\* C8: short header.  hsq_decompress and hsq_get_sizes raise for every
\* input of fewer than 6 bytes; for every input of at least 6 bytes
\* hsq_get_sizes returns (u16 LE at bytes 0-1, u16 LE at bytes 3-4, byte 2),
\* which no byte past byte 5 enters.
C8_ShortHeader ==
    \A k \in DOMAIN calls :
        LET a == calls[k].arg
        IN  /\ (calls[k].fn \in {"hsq_decompress", "hsq_get_sizes"} /\ Len(a) < 6)
                => calls[k].status = "ValueError" /\ calls[k].value = <<>>
            /\ (calls[k].fn = "hsq_get_sizes" /\ Len(a) >= 6)
                => /\ calls[k].status = "ok"
                   /\ calls[k].value = <<a[1] + 256 * a[2], a[4] + 256 * a[5], a[3]>>

\* hsq_get_sizes has returned for a buffer longer than its header, whose
\* three fields differ and whose bytes 2 and 5 differ
C8_Witness ==
    \E k \in DOMAIN calls :
        /\ calls[k].fn = "hsq_get_sizes"
        /\ Len(calls[k].arg) > 6
        /\ calls[k].status = "ok"
        /\ calls[k].value[1] # calls[k].value[2]
        /\ calls[k].arg[3] # calls[k].arg[6]
        /\ calls[k].arg[4] # calls[k].arg[3]

\* whether the escape or the run pattern of f7_decompress matches at index i
F7PatternAt(data, i) ==
    \/ At(data, i) = F7 /\ At(data, i + 1) = 1 /\ At(data, i + 2) = F7
    \/ At(data, i) = F7 /\ At(data, i + 1) > 2

\* C9: F7 final lookahead.  When f7_decompress's scan reaches the final
\* lookahead position i = len(data) - 3 and neither pattern matches there,
\* the three bytes data[i], data[i+1], data[i+2] are emitted once each and
\* nothing more; so an input of 3 or more bytes without 0xF7 is returned
\* unchanged.
C9_F7FinalLookahead ==
    \A k \in DOMAIN calls :
        calls[k].fn = "f7_decompress"
            => LET a   == calls[k].arg
                   tr  == calls[k].trace
                   end == Len(a) - 3
               IN  /\ \A j \in DOMAIN tr :
                        (tr[j].i = end /\ ~F7PatternAt(a, end))
                            => calls[k].value = tr[j].out \o SubSeq(a, end + 1, end + 3)
                   /\ (Len(a) >= 3 /\ \A p \in DOMAIN a : a[p] # F7)
                        => calls[k].value = a

\* C10: F7 escape.  f7_compress visits every input byte 0xF7, alone or in a
\* run of them, and emits the triple F7 01 F7 for it, advancing by 1, so
\* f7_compress([F7]) = [F7, 01, F7]; f7_decompress turns a triple F7 01 F7 at
\* its scan position into the single byte F7, advancing by 3, so
\* f7_decompress([F7, 01, F7]) = [F7].
C10_F7Escape ==
    \A k \in DOMAIN calls :
        LET a  == calls[k].arg
            tr == calls[k].trace
        IN  /\ calls[k].fn = "f7_compress"
                => /\ \A p \in DOMAIN a :
                        a[p] = F7 => \E j \in 1..(Len(tr) - 1) : tr[j].i = p - 1
                   /\ \A j \in 1..(Len(tr) - 1) :
                        At(a, tr[j].i) = F7
                            => tr[j + 1] = [i |-> tr[j].i + 1, out |-> tr[j].out \o <<F7, 1, F7>>]
                   /\ a = <<F7>> => calls[k].value = <<F7, 1, F7>>
            /\ calls[k].fn = "f7_decompress"
                => /\ \A j \in 1..(Len(tr) - 1) :
                        (At(a, tr[j].i) = F7 /\ At(a, tr[j].i + 1) = 1 /\ At(a, tr[j].i + 2) = F7)
                            => tr[j + 1] = [i |-> tr[j].i + 3, out |-> Append(tr[j].out, F7)]
                   /\ a = <<F7, 1, F7>> => calls[k].value = <<F7>>

\* f7_compress has encoded a run of four bytes 0xF7, and f7_decompress has
\* decoded the result
C10_Witness ==
    /\ RoundTripDone("f7_compress", "f7_decompress")
    /\ input = <<F7, F7, F7, F7>>
    /\ calls[1].value = <<F7, 1, F7, F7, 1, F7, F7, 1, F7, F7, 1, F7>>
    /\ calls[2].value = input

\* whether a maximal run of data[p] begins at index p, and its length
RunStartAt(data, p) == p = 0 \/ At(data, p - 1) # At(data, p)

RunLenAt(data, p) ==
    CHOOSE n \in 1..(Len(data) - p) :
        /\ \A k \in 0..(n - 1) : At(data, p + k) = At(data, p)
        /\ p + n = Len(data) \/ At(data, p + n) # At(data, p)

\* what the encoding of a run of n copies of v is to be: literals up to 3,
\* one triple up to 255, and a full triple followed by the rest beyond
RECURSIVE F7RunEncoding(_, _)
F7RunEncoding(v, n) ==
    IF n <= 3 THEN <<>> \o Repeat(v, n)
    ELSE IF n <= F7MaxRun THEN <<F7, n, v>>
    ELSE <<F7, F7MaxRun, v>> \o F7RunEncoding(v, n - F7MaxRun)

\* C11: F7 RLE threshold and cap.  For a byte v other than 0xF7, f7_compress
\* reaches the start of every maximal run of v, leaves a run of 1, 2 or 3
\* copies as that many literal bytes, encodes a run of 4 to 255 copies as
\* the one triple F7 n v, and splits a longer run into F7 FF v followed by
\* the encoding of the remaining copies; so [AA, AA, AA] stays as it is and
\* [AA, AA, AA, AA] becomes [F7, 04, AA].
C11_F7RunThreshold ==
    \A k \in DOMAIN calls :
        calls[k].fn = "f7_compress"
            => LET a  == calls[k].arg
                   tr == calls[k].trace
               IN  /\ \A p \in 0..(Len(a) - 1) :
                        (At(a, p) # F7 /\ RunStartAt(a, p))
                            => \E j \in DOMAIN tr, j2 \in DOMAIN tr :
                                   /\ tr[j].i = p
                                   /\ tr[j2].i = p + RunLenAt(a, p)
                                   /\ tr[j2].out = tr[j].out
                                          \o F7RunEncoding(At(a, p), RunLenAt(a, p))
                   /\ a = <<170, 170, 170>> => calls[k].value = a
                   /\ a = <<170, 170, 170, 170>> => calls[k].value = <<F7, 4, 170>>

\* f7_compress has encoded a run of 259 bytes as a full triple and a triple
\* of 4
C11_Witness ==
    /\ Made(1, "f7_compress")
    /\ Len(input) = F7MaxRun + 4
    /\ calls[1].value = <<F7, F7MaxRun, 170, F7, 4, 170>>

\* C12: F7 decoder triples.  At a scan position of f7_decompress with at
\* least 3 bytes remaining, a triple F7 NN VV with NN > 2 that is not the
\* escape emits NN copies of VV and advances 3; an F7 followed by NN in
\* {0, 1, 2} that is not the escape is emitted as the one literal byte F7
\* with an advance of 1; and the bytes left when fewer than 3 remain are
\* appended to the output once, as they are.
C12_F7DecoderTriples ==
    \A k \in DOMAIN calls :
        calls[k].fn = "f7_decompress"
            => LET a  == calls[k].arg
                   tr == calls[k].trace
               IN  /\ \A j \in 1..(Len(tr) - 1) :
                        LET i  == tr[j].i
                            b0 == At(a, i)
                            b1 == At(a, i + 1)
                            b2 == At(a, i + 2)
                            escape == b0 = F7 /\ b1 = 1 /\ b2 = F7
                        IN  /\ (b0 = F7 /\ b1 > 2 /\ ~escape)
                                => tr[j + 1] = [i |-> i + 3, out |-> tr[j].out \o Repeat(b2, b1)]
                            /\ (b0 = F7 /\ b1 \in {0, 1, 2} /\ ~escape)
                                => tr[j + 1] = [i |-> i + 1, out |-> Append(tr[j].out, F7)]
                   /\ Last(tr).i > Len(a) - 3
                   /\ calls[k].value = Last(tr).out \o SubSeq(a, Last(tr).i + 1, Len(a))

\* the scan steps of an hsq_compress call that appended a reference
RefSteps(steps) ==
    LET IsRef(st) == st.cmd.kind # "literal"
    IN  SelectSeq(steps, IsRef)

\* whether the two bytes at p and at q are the same pair
SamePair(data, p, q) == At(data, p) = At(data, q) /\ At(data, p + 1) = At(data, q + 1)

\* C13: short-reference boundary.  Every short reference hsq_compress emits
\* has a distance d in 1..256 and the offset byte (256 - d) mod 256, so 0 for
\* d = 256, and hsq_decompress recovers the offset -d from it; and where the
\* scan stands on a 2-byte pattern whose nearest earlier occurrence is
\* exactly 256 bytes back, the command emitted is a short reference with
\* offset byte 0, through which the buffer round-trips.
C13_ShortReferenceBoundary ==
    /\ \A k \in DOMAIN calls :
            calls[k].fn = "hsq_compress"
                => LET a  == calls[k].arg
                       st == calls[k].steps
                   IN  \A j \in DOMAIN st :
                           /\ st[j].cmd.kind = "short"
                                => /\ st[j].best_off \in 1..MaxShortDistance
                                   /\ st[j].cmd.y = (256 - st[j].best_off) % 256
                           /\ (/\ st[j].pos >= MaxShortDistance
                               /\ st[j].pos + 1 < Len(a)
                               /\ SamePair(a, st[j].pos, st[j].pos - MaxShortDistance)
                               /\ \A d \in 1..(MaxShortDistance - 1) :
                                      ~SamePair(a, st[j].pos, st[j].pos - d))
                                => st[j].cmd.kind = "short" /\ st[j].cmd.y = 0
    /\ RoundTripDone("hsq_compress", "hsq_decompress")
            => LET enc == RefSteps(calls[1].steps)
                   dec == calls[2].final.refs
               IN  /\ Len(dec) = Len(enc)
                   /\ \A i \in DOMAIN enc :
                          enc[i].cmd.kind = "short" => dec[i].offset = -enc[i].best_off
                   /\ calls[2].value = input

\* C14: self-overlapping copy.  Every back-reference hsq_decompress executes
\* with a valid source (dst + offset >= 0) appends all its bytes, and the
\* byte at output index k is the output byte at index k + offset, also
\* where that byte was written by the same copy; with offset -1 and 5 bytes
\* the copy is 5 repetitions of the byte before it.
C14_SelfOverlapCopy ==
    \A k \in DOMAIN calls :
        calls[k].fn = "hsq_decompress"
            => LET out == calls[k].final.out
               IN  \A j \in DOMAIN calls[k].final.refs :
                       LET r == calls[k].final.refs[j]
                       IN  r.dst + r.offset >= 0
                               => /\ Len(out) >= r.dst + r.n
                                  /\ \A i \in 0..(r.n - 1) :
                                         At(out, r.dst + i) = At(out, r.dst + r.offset + i)
                                  /\ (r.offset = -1 /\ r.n = 5)
                                         => SubSeq(out, r.dst + 1, r.dst + 5)
                                                = <<>> \o Repeat(At(out, r.dst - 1), 5)

\* a reference of 5 bytes at offset -1 after one literal has been executed,
\* and the call has returned 6 times that byte
C14_Witness ==
    \E k \in DOMAIN calls :
        /\ calls[k].fn = "hsq_decompress"
        /\ calls[k].status = "ok"
        /\ calls[k].final.refs = <<[dst |-> 1, offset |-> -1, n |-> 5]>>
        /\ calls[k].value = <<65, 65, 65, 65, 65, 65>>

\* C15: minimal fixture.  On the header 02 00 00 08 00 <checksum> followed by
\* the body that encodes two literal bytes and the EOF marker, hsq_decompress
\* returns normally, and returns those two bytes.
C15_MinimalFixture ==
    \A k \in DOMAIN calls :
        (/\ calls[k].fn = "hsq_decompress"
         /\ Len(calls[k].arg) = 13
         /\ SubSeq(calls[k].arg, 1, 6) = <<2, 0, 0, 8, 0, 161>>
         /\ SubSeq(calls[k].arg, 7, 13)
               = EncodeCommands(<<Cmd("literal", calls[k].arg[9], 0),
                                  Cmd("literal", calls[k].arg[10], 0),
                                  Cmd("long_ext", 0, 0)>>))
            => /\ calls[k].status = "ok"
               /\ calls[k].value = <<calls[k].arg[9], calls[k].arg[10]>>

\* hsq_decompress has returned the two bytes 41 FF of a minimal stream
C15_Witness ==
    \E k \in DOMAIN calls :
        /\ calls[k].fn = "hsq_decompress"
        /\ calls[k].arg = <<2, 0, 0, 8, 0, 161, 11, 0, 65, 255, 0, 0, 0>>
        /\ calls[k].status = "ok"
        /\ calls[k].value = <<65, 255>>

\* C16: header sizes.  For every buffer out that hsq_compress returns for a
\* buffer b of at most 65535 bytes, the header's decompressed_size field is
\* len(b) and its compressed_size field is len(out), and hsq_get_sizes(out)
\* returns (len(b), len(out), 0).
C16_HeaderSizes ==
    /\ \A k \in DOMAIN calls :
            (calls[k].fn = "hsq_compress" /\ Len(calls[k].arg) <= U16Max)
                => LET out == calls[k].value
                   IN  /\ out[1] + 256 * out[2] = Len(calls[k].arg)
                       /\ out[4] + 256 * out[5] = Len(out)
    /\ (Len(calls) = 2 /\ calls[1].fn = "hsq_compress" /\ calls[2].fn = "hsq_get_sizes"
            /\ Len(input) <= U16Max)
            => /\ calls[2].status = "ok"
               /\ calls[2].value = <<Len(input), Len(calls[1].value), 0>>

\* the distance and the length a reference command encodes
CmdDistance(cmd) ==
    IF cmd.kind = "short" THEN 256 - cmd.y ELSE 8192 - (cmd.x \div 8)

CmdLength(cmd) ==
    IF cmd.kind = "short" THEN cmd.x + 2
    ELSE IF cmd.kind = "long" THEN (cmd.x % 8) + 2
    ELSE cmd.y + 2

\* C17: encoder references are always valid.  Every short or long reference
\* hsq_compress emits at input position pos encodes a distance d with
\* 1 <= d <= min(pos, 8192) and a length L with pos + L <= len(data), the
\* distance and the length of the match it stands for; a short reference
\* has d <= 256 and 2 <= L <= 5, a long one 257 <= d <= 8192 and
\* 3 <= L <= 257.  Hence hsq_decompress of the stream executes the same
\* references and none whose source starts before the output.
C17_EncoderReferencesValid ==
    /\ \A k \in DOMAIN calls :
            calls[k].fn = "hsq_compress"
                => \A j \in DOMAIN calls[k].steps :
                       LET st == calls[k].steps[j]
                           d  == CmdDistance(st.cmd)
                           L  == CmdLength(st.cmd)
                       IN  st.cmd.kind # "literal"
                               => /\ d = st.best_off
                                  /\ L = st.next_pos - st.pos
                                  /\ 1 <= d /\ d <= Min(st.pos, MaxDistance)
                                  /\ st.pos + L <= Len(calls[k].arg)
                                  /\ st.cmd.kind = "short"
                                        => d <= MaxShortDistance /\ 2 <= L /\ L <= MaxShortLen
                                  /\ st.cmd.kind # "short"
                                        => /\ MaxShortDistance + 1 <= d /\ d <= MaxDistance
                                           /\ 3 <= L /\ L <= MaxMatchLen
    /\ (RoundTripDone("hsq_compress", "hsq_decompress") /\ Len(input) <= U16Max)
            => LET enc == RefSteps(calls[1].steps)
                   dec == calls[2].final.refs
               IN  /\ ~calls[2].final.badref
                   /\ Len(dec) = Len(enc)
                   /\ \A i \in DOMAIN enc :
                          dec[i] = [dst |-> enc[i].pos, offset |-> -enc[i].best_off,
                                    n |-> enc[i].next_pos - enc[i].pos]

\* a long reference at the far end of the window, distance 8192, has been
\* emitted and decoded
C17_Witness ==
    /\ RoundTripDone("hsq_compress", "hsq_decompress")
    /\ \E j \in DOMAIN calls[1].steps :
           /\ calls[1].steps[j].cmd.kind = "long"
           /\ calls[1].steps[j].best_off = MaxDistance
    /\ \E i \in DOMAIN calls[2].final.refs : calls[2].final.refs[i].offset = -MaxDistance
    /\ calls[2].value = input

\* C18: empty input.  hsq_compress of the empty buffer returns a 6-byte
\* header declaring decompressed_size 0 and the body 02 00 | 00 00 | 00 (the
\* control bits 0, 1, the word 0x0000, the byte 0x00); that is the byte
\* string the general path makes of the command list holding only the EOF
\* marker, and hsq_decompress of it returns the empty buffer.
C18_EmptyInput ==
    /\ \A k \in DOMAIN calls :
            (calls[k].fn = "hsq_compress" /\ calls[k].arg = <<>>)
                => LET v    == calls[k].value
                       body == EncodeCommands(<<Cmd("long_ext", 0, 0)>>)
                   IN  /\ calls[k].status = "ok"
                       /\ Len(v) = HsqHeaderLen + 5
                       /\ v[1] + 256 * v[2] = 0
                       /\ SubSeq(v, HsqHeaderLen + 1, Len(v)) = <<2, 0, 0, 0, 0>>
                       /\ body = <<2, 0, 0, 0, 0>>
                       /\ v = HsqHeader(0, HsqHeaderLen + Len(body)) \o body
    /\ (RoundTripDone("hsq_compress", "hsq_decompress") /\ input = <<>>)
            => calls[2].status = "ok" /\ calls[2].value = <<>>

\* the empty buffer has been compressed to its 11 bytes and decompressed
C18_Witness ==
    /\ RoundTripDone("hsq_compress", "hsq_decompress")
    /\ input = <<>>
    /\ calls[1].value = <<0, 0, 0, 11, 0, 160, 2, 0, 0, 0, 0>>
    /\ calls[2].status = "ok" /\ calls[2].value = <<>>

\* what a call returns or raises when it runs alone
RunAlone(fn, arg) ==
    LET r == IF fn = "f7_compress" THEN f7_compress(arg)
             ELSE IF fn = "f7_decompress" THEN f7_decompress(arg)
             ELSE IF fn = "hsq_decompress" THEN hsq_decompress(arg)
             ELSE hsq_compress(arg)
    IN  [status |-> r.status, value |-> r.value]

\* C19: reentrancy.  Calls of hsq_decompress, hsq_compress, f7_decompress
\* and f7_compress that run interleaved share no state: under every
\* interleaving of their steps each call returns or raises what it does
\* when it runs alone.
C19_Reentrancy ==
    \A c \in DOMAIN frames :
        frames[c].done => frames[c].result = RunAlone(frames[c].fn, frames[c].arg)

\* two calls of hsq_decompress on different streams have both returned,
\* each having taken steps while the other was in the middle of its run
C19_Witness ==
    /\ DOMAIN frames = {1, 2}
    /\ frames[1].fn = "hsq_decompress" /\ frames[2].fn = "hsq_decompress"
    /\ frames[1].done /\ frames[2].done
    /\ frames[1].overlapped /\ frames[2].overlapped
    /\ frames[1].result = [status |-> "ok", value |-> <<65, 255>>]
    /\ frames[2].result = [status |-> "ok", value |-> <<65, 65, 65, 65, 65, 65>>]

\* what a step of a call that goes on does to its locals: the index of an
\* F7 loop and the pos of the scan loop grow; an iteration of the decoder
\* that does not end the loop takes a bit (the queue is shifted or
\* refilled) and moves the cursor
Progress(f, g) ==
    \/ g = f
    \/ g.done
    \/ f.fn \in {"f7_compress", "f7_decompress"} /\ g.st.i >= f.st.i + 1
    \/ f.fn = "hsq_compress" /\ g.st.pos >= f.st.pos + 1
    \/ f.fn = "hsq_decompress"
          /\ \/ g.st.status # "run"
             \/ g.st.queue # f.st.queue /\ g.st.pos > f.st.pos

\* C20: termination.  Every call of the four functions returns or raises:
\* each step of a call either ends it or advances its loop (an F7 loop's
\* index by at least 1, the scan's pos by at least 1, the decoder by at
\* least one control bit of the finite buffer), and every call is done in
\* the end.
C20_Termination ==
    /\ [][\A c \in DOMAIN frames : Progress(frames[c], frames'[c])]_vars
    /\ <>(\A c \in DOMAIN frames : frames[c].done)

\* a call of hsq_decompress has raised in the middle of its loop and a call
\* of hsq_compress has returned after a scan of several steps
C20_Witness ==
    /\ DOMAIN frames = {1, 2}
    /\ frames[1].fn = "hsq_decompress" /\ frames[1].done
    /\ frames[1].result.status = "ValueError" /\ frames[1].n > 2
    /\ frames[2].fn = "hsq_compress" /\ frames[2].done /\ frames[2].n > 2

\* bit i of the word w
BitOf(w, i) == (w \div (2 ^ i)) % 2

\* the number of control bits a word gives
BitsPerWord == 16

\* the returned calls of get_bit of the call k of hsq_decompress
BitLog(k) == calls[k].final.bits

\* C21: the bit queue, 16 bits per word.  Starting from queue = 0, the j-th
\* call of get_bit in hsq_decompress returns bit (j-1) mod 16 of the
\* ((j-1) div 16 + 1)-th control word read, low bit first; a control word is
\* read exactly on the calls 1, 17, 33, ..., at the moment its first bit is
\* asked for, and the refill from the word w leaves 0x8000 | (w >> 1) in the
\* register.
C21_BitQueue ==
    \A k \in DOMAIN calls :
        calls[k].fn = "hsq_decompress"
            => LET B == BitLog(k)
               IN  /\ B # <<>> => B[1].before = 0
                   /\ \A j \in DOMAIN B :
                        LET first == j - ((j - 1) % BitsPerWord)
                        IN  /\ (B[j].word # -1) <=> (j = first)
                            /\ B[j].bit = BitOf(B[first].word, j - first)
                            /\ B[j].word # -1 => B[j].after = 32768 + (B[j].word \div 2)
                            /\ j > 1 => B[j].before = B[j - 1].after

\* a call of hsq_decompress has taken more than two words of control bits,
\* and a word after the first whose low bit is 0 has given a 1 later on
C21_Witness ==
    \E k \in DOMAIN calls :
        /\ calls[k].fn = "hsq_decompress" /\ calls[k].status = "ok"
        /\ Len(BitLog(k)) > 2 * BitsPerWord
        /\ \E j \in DOMAIN BitLog(k) :
            /\ j > BitsPerWord
            /\ BitLog(k)[j].word # -1 /\ BitLog(k)[j].bit = 0
            /\ \E i \in 1..(BitsPerWord - 1) :
                    j + i \in DOMAIN BitLog(k) /\ BitLog(k)[j + i].bit = 1

\* C22 as stated: after a refill from a word w the register is exactly 0
\* after 15 further extractions, and never 0 before that.
C22_SentinelCountdown ==
    \A k \in DOMAIN calls :
        calls[k].fn = "hsq_decompress"
            => \A j \in DOMAIN BitLog(k) :
                BitLog(k)[j].word # -1
                    => /\ \A i \in 0..(BitsPerWord - 2) :
                            j + i \in DOMAIN BitLog(k) => BitLog(k)[j + i].after # 0
                       /\ j + BitsPerWord - 1 \in DOMAIN BitLog(k)
                            => BitLog(k)[j + BitsPerWord - 1].after = 0

\* C22, amended: after a refill from a word w, whatever w is, the register
\* is not 0 after the refill nor after any of the 15 further extractions;
\* after the 15th it is exactly 1, the sentinel alone.  The shift of the
\* 16th further extraction takes it to 0, and that extraction refills it
\* at once; the shift of no other extraction gives 0.
C22_SentinelCountdownAmended ==
    \A k \in DOMAIN calls :
        calls[k].fn = "hsq_decompress"
            => \A j \in DOMAIN BitLog(k) :
                LET B == BitLog(k)
                IN  /\ B[j].after # 0
                    /\ (B[j].shifted = 0) <=> (B[j].word # -1)
                    /\ B[j].word # -1
                        => /\ \A i \in 1..(BitsPerWord - 1) :
                                j + i \in DOMAIN B
                                    => B[j + i].shifted # 0 /\ B[j + i].word = -1
                           /\ j + BitsPerWord - 1 \in DOMAIN B
                                => B[j + BitsPerWord - 1].after = 1
                           /\ j + BitsPerWord \in DOMAIN B
                                => /\ B[j + BitsPerWord].before = 1
                                   /\ B[j + BitsPerWord].shifted = 0
                                   /\ B[j + BitsPerWord].word # -1

\* a call of hsq_decompress has refilled the register from the word 0x0001,
\* whose bits 1..15 are all 0, has taken the 16 bits of the word and has
\* refilled again
C22_Witness ==
    \E k \in DOMAIN calls :
        /\ calls[k].fn = "hsq_decompress" /\ calls[k].status = "ok"
        /\ \E j \in DOMAIN BitLog(k) :
                BitLog(k)[j].word = 1 /\ j + BitsPerWord \in DOMAIN BitLog(k)

\* the bits written by the calls ops, in order
BitsWritten(ops) ==
    LET IsBit(o) == o.op = "bit"
        sel      == SelectSeq(ops, IsBit)
    IN  [i \in DOMAIN sel |-> sel[i].v]

\* the number of calls of write_bit before the k-th call
BitIndex(ops, k) == Cardinality({j \in 1..(k - 1) : ops[j].op = "bit"})

RawBytesWritten(ops) ==
    Cardinality({k \in DOMAIN ops : ops[k].op = "byte"})
        + 2 * Cardinality({k \in DOMAIN ops : ops[k].op = "word"})

\* C23: the bit writer mirrors the bit reader.  For every sequence of
\* write_bit, write_byte and write_word calls followed by finish(), the
\* decoder's get_bit, read_u8 and read_u16 applied in the same order to the
\* body return exactly the values written; each 16-bit control word lies in
\* the stream where the stream ended when its first bit was written, before
\* every raw byte or word written after that bit; the last, partial word is
\* padded with zeros; and the body has 2 * ceil(bits / 16) bytes plus the
\* raw bytes written.
C23_WriterMirrorsReader ==
    (frames # <<>> /\ frames[1].fn = "BitWriter")
        => LET f    == frames[1]
               bits == BitsWritten(f.ops)
               nw   == (Len(bits) + BitsPerWord - 1) \div BitsPerWord
           IN  /\ \A i \in DOMAIN f.got : f.got[i].ok /\ f.got[i].val = f.ops[i].v
               /\ f.finished
                    => /\ Len(f.body) = 2 * nw + RawBytesWritten(f.ops)
                       /\ \A k \in DOMAIN f.ops :
                            LET o == f.ops[k]
                                i == BitIndex(f.ops, k)
                            IN  /\ o.op = "byte" => At(f.body, o.at) = o.v
                                /\ o.op = "word"
                                    => At(f.body, o.at) + 256 * At(f.body, o.at + 1) = o.v
                                /\ (o.op = "bit" /\ i % BitsPerWord = 0)
                                    => /\ At(f.body, o.at) + 256 * At(f.body, o.at + 1)
                                            = BitsValue(SubSeq(bits, i + 1,
                                                               Min(i + BitsPerWord, Len(bits))))
                                       /\ \A m \in DOMAIN f.ops :
                                            (m > k /\ f.ops[m].op # "bit")
                                                => f.ops[m].at >= o.at + 2

\* every call has been read back, for a writer whose second control word was
\* started right behind a raw byte written after the 16th bit, and whose
\* last word is partial
C23_Witness ==
    /\ frames # <<>> /\ frames[1].fn = "BitWriter" /\ frames[1].finished
    /\ Len(frames[1].got) = Len(frames[1].ops)
    /\ Len(BitsWritten(frames[1].ops)) % BitsPerWord # 0
    /\ \E k \in DOMAIN frames[1].ops, m \in DOMAIN frames[1].ops :
            /\ k < m
            /\ frames[1].ops[k].op = "byte" /\ frames[1].ops[m].op = "bit"
            /\ BitIndex(frames[1].ops, k) = BitsPerWord
            /\ BitIndex(frames[1].ops, m) = BitsPerWord
            /\ frames[1].ops[m].at = frames[1].ops[k].at + 1
            /\ frames[1].ops[m].v = 1

\* the bytes of the input a command covers
CmdCovers(cmd) == IF cmd.kind = "literal" THEN 1 ELSE CmdLength(cmd)

\* C24: the greedy encoding decision.  At every scan position of
\* hsq_compress, with (offset, length) the best match found there, the
\* command emitted is a short reference of length min(length, 5) if
\* offset <= 256 and length >= 2, otherwise a long reference of the full
\* length if length >= 3, otherwise a literal of data[pos]; pos advances by
\* exactly the bytes the command covers and never exceeds len(data), and the
\* commands cover len(data) bytes in all.
C24_GreedyDecision ==
    \A k \in DOMAIN calls :
        (calls[k].fn = "hsq_compress" /\ calls[k].arg # <<>>)
            => LET S    == calls[k].steps
                   data == calls[k].arg
               IN  /\ S # <<>> /\ S[1].pos = 0 /\ S[Len(S)].next_pos = Len(data)
                   /\ Len(calls[k].commands) = Len(S) + 1
                   /\ \A j \in DOMAIN S :
                        /\ calls[k].commands[j] = S[j].cmd
                        /\ j > 1 => S[j].pos = S[j - 1].next_pos
                        /\ S[j].next_pos = S[j].pos + CmdCovers(S[j].cmd)
                        /\ S[j].next_pos <= Len(data)
                        /\ IF S[j].best_off <= MaxShortDistance /\ S[j].best_len >= 2
                           THEN /\ S[j].cmd.kind = "short"
                                /\ CmdLength(S[j].cmd) = Min(S[j].best_len, MaxShortLen)
                                /\ CmdDistance(S[j].cmd) = S[j].best_off
                           ELSE IF S[j].best_len >= 3
                           THEN /\ S[j].cmd.kind \in {"long", "long_ext"}
                                /\ CmdLength(S[j].cmd) = S[j].best_len
                                /\ CmdDistance(S[j].cmd) = S[j].best_off
                           ELSE S[j].cmd = Cmd("literal", At(data, S[j].pos), 0)

\* hsq_compress has returned for a buffer on which it emitted a literal
\* where the best match had length 1, and a short reference for a match
\* longer than 5
C24_Witness ==
    /\ Made(1, "hsq_compress")
    /\ \E j \in DOMAIN calls[1].steps :
            calls[1].steps[j].best_len = 1 /\ calls[1].steps[j].cmd.kind = "literal"
    /\ \E j \in DOMAIN calls[1].steps :
            /\ calls[1].steps[j].best_len > MaxShortLen
            /\ calls[1].steps[j].cmd.kind = "short"
            /\ calls[1].steps[j].next_pos = calls[1].steps[j].pos + MaxShortLen

\* C25: long-reference packing and the unique EOF.  For a long reference of
\* length L hsq_compress packs L - 2 into the low 3 bits of the word when
\* 1 <= L - 2 <= 7, and otherwise writes a zero count field and an extra
\* byte equal to L - 2, with 8 <= L - 2 <= 255; the 13-bit offset field is
\* 8192 - d for the distance d.  No data reference has a zero count field
\* and a zero extra byte, so the EOF marker occurs exactly once in the
\* command list, as its last command.
C25_LongPacking ==
    \A k \in DOMAIN calls :
        (calls[k].fn = "hsq_compress" /\ calls[k].arg # <<>>)
            => LET S == calls[k].steps
                   C == calls[k].commands
               IN  /\ \A j \in DOMAIN S :
                        LET L == S[j].next_pos - S[j].pos
                            d == S[j].best_off
                            c == S[j].cmd
                        IN  c.kind \in {"long", "long_ext"}
                                => /\ 0 <= c.x /\ c.x <= U16Max
                                   /\ c.x \div 8 = 8192 - d
                                   /\ IF 1 <= L - 2 /\ L - 2 <= 7
                                      THEN c.kind = "long" /\ c.x % 8 = L - 2
                                      ELSE /\ c.kind = "long_ext" /\ c.x % 8 = 0
                                           /\ c.y = L - 2
                                           /\ 8 <= L - 2 /\ L - 2 <= 255
                   /\ C # <<>> /\ C[Len(C)] = Cmd("long_ext", 0, 0)
                   /\ \A j \in 1..(Len(C) - 1) :
                        ~(C[j].kind = "long_ext" /\ C[j].x % 8 = 0 /\ C[j].y = 0)
                            /\ ~(C[j].kind = "long" /\ C[j].x % 8 = 0)

\* hsq_compress has returned for a buffer on which it emitted a long
\* reference of 9 bytes with the inline count 7 and a long reference of 10
\* bytes with the extra byte 8
C25_Witness ==
    /\ Made(1, "hsq_compress")
    /\ \E j \in DOMAIN calls[1].steps :
            LET c == calls[1].steps[j].cmd
            IN  c.kind = "long" /\ c.x % 8 = 7 /\ c.x \div 8 = 8192 - 257
    /\ \E j \in DOMAIN calls[1].steps :
            LET c == calls[1].steps[j].cmd
            IN  c.kind = "long_ext" /\ c.x % 8 = 0 /\ c.y = 8

\* the control bits a command of the decoder takes
PrefixBits(kind) == IF kind \in {"literal", "full"} THEN 1 ELSE IF kind = "short" THEN 4 ELSE 2

\* the commands of the call k of hsq_decompress that are references
RefCmds(k) ==
    LET IsRef(c) == c.kind \in {"short", "long"}
    IN  SelectSeq(calls[k].final.cmds, IsRef)

\* C26: the decoder's command semantics.  In hsq_decompress the control
\* prefix 0,1 reads a little-endian word with count = word & 7 and
\* offset = (word >> 3) - 8192, always in -8192..-1; a zero count is
\* replaced by the next raw byte, and only if that byte is 0 too does
\* decoding stop (EOF), otherwise count + 2 bytes are copied (3..257).  The
\* prefix 0,0 reads two more bits as the count, the first the high one
\* (0..3), then a raw byte b with offset = b - 256, always in -256..-1, and
\* copies count + 2 bytes (2..5).  A control bit 1 stops decoding if the
\* output has at least decompressed_size bytes already, and otherwise
\* appends the next raw byte.
C26_DecoderCommands ==
    \A k \in DOMAIN calls :
        (calls[k].fn = "hsq_decompress" /\ Len(calls[k].arg) >= HsqHeaderLen)
            => LET data == calls[k].arg
                   f    == calls[k].final
                   C    == f.cmds
                   B    == f.bits
                   N    == calls[k].decomp_size
                   R    == RefCmds(k)
               IN  /\ \A j \in DOMAIN C :
                        LET c    == C[j]
                            b1   == c.bits - PrefixBits(c.kind) + 1
                            last == j = Len(C)
                        IN  /\ b1 = IF j = 1 THEN 1 ELSE C[j - 1].bits + 1
                            /\ c.kind \in {"literal", "full"}
                                => /\ B[b1].bit = 1
                                   /\ (c.kind = "full") <=> (c.len >= N)
                                   /\ c.kind = "full" => last /\ f.status = "full"
                                   /\ c.kind = "literal"
                                        => /\ c.raw = At(data, c.at)
                                           /\ (IF last THEN f.out
                                                       ELSE SubSeq(f.out, 1, C[j + 1].len))
                                                = Append(SubSeq(f.out, 1, c.len), c.raw)
                            /\ c.kind \in {"long", "eof"}
                                => /\ B[b1].bit = 0 /\ B[b1 + 1].bit = 1
                                   /\ c.raw = At(data, c.at) + 256 * At(data, c.at + 1)
                                   /\ c.offset = (c.raw \div 8) - 8192
                                   /\ -8192 <= c.offset /\ c.offset <= -1
                                   /\ IF c.raw % 8 = 0
                                      THEN c.extra = At(data, c.at + 2) /\ c.count = c.extra
                                      ELSE c.extra = -1 /\ c.count = c.raw % 8
                                   /\ (c.kind = "eof") <=> (c.count = 0)
                                   /\ c.kind = "eof" => last /\ f.status = "eof"
                                   /\ c.kind = "long" => 3 <= c.count + 2 /\ c.count + 2 <= 257
                            /\ c.kind = "short"
                                => /\ B[b1].bit = 0 /\ B[b1 + 1].bit = 0
                                   /\ c.count = 2 * B[b1 + 2].bit + B[b1 + 3].bit
                                   /\ c.raw = At(data, c.at)
                                   /\ c.offset = c.raw - 256
                                   /\ -256 <= c.offset /\ c.offset <= -1
                                   /\ 2 <= c.count + 2 /\ c.count + 2 <= 5
                            /\ (c.kind \in {"short", "long"} /\ ~(last /\ f.status = "IndexError"))
                                => Len(IF last THEN f.out ELSE SubSeq(f.out, 1, C[j + 1].len))
                                       = c.len + c.count + 2
                   /\ f.status \in {"full", "eof"} => C # <<>> /\ C[Len(C)].kind = f.status
                   /\ Len(f.refs) = Len(R)
                   /\ \A i \in DOMAIN R :
                        f.refs[i] = [dst |-> R[i].len, offset |-> R[i].offset,
                                     n |-> R[i].count + 2]

\* a call of hsq_decompress has decoded a literal, a short reference whose
\* two count bits differ, a long reference with its count in the word, a
\* long reference with its count in the extra byte, and the EOF marker
C26_Witness ==
    \E k \in DOMAIN calls :
        /\ calls[k].fn = "hsq_decompress" /\ calls[k].status = "ok"
        /\ \E j \in DOMAIN calls[k].final.cmds : calls[k].final.cmds[j].kind = "literal"
        /\ \E j \in DOMAIN calls[k].final.cmds :
                /\ calls[k].final.cmds[j].kind = "short"
                /\ calls[k].final.cmds[j].count \in {1, 2}
        /\ \E j \in DOMAIN calls[k].final.cmds :
                /\ calls[k].final.cmds[j].kind = "long"
                /\ calls[k].final.cmds[j].extra = -1
        /\ \E j \in DOMAIN calls[k].final.cmds :
                /\ calls[k].final.cmds[j].kind = "long"
                /\ calls[k].final.cmds[j].extra > 0
        /\ calls[k].final.cmds[Len(calls[k].final.cmds)].kind = "eof"

\* the chain of the bucket h: the positions met from head[h] along prev, as
\* the chain walk follows them, with neither its window nor its depth limit
ChainOf(head, prev, h, n) ==
    LET Cont(c) == c.m >= 0
        Step(c) == [seq |-> Append(c.seq, c.m),
                    m   |-> IF ArrGet(prev, c.m) >= c.m THEN -1 ELSE ArrGet(prev, c.m)]
    IN  While(Cont, Step, [seq |-> <<>>, m |-> ArrGet(head, h)], n + 1).seq

\* whether the position p is in the hash index: on the chain of its bucket
Indexed(data, head, prev, p) ==
    LET ch == ChainOf(head, prev, hash3(data, p), Len(data))
    IN  \E i \in DOMAIN ch : ch[i] = p

\* the frames of hsq_compress standing at the top of the scan loop
Scanning(c) ==
    /\ c \in DOMAIN frames /\ frames[c].fn = "hsq_compress" /\ ~frames[c].done
    /\ frames[c].arg # <<>>

\* C27: hash index coverage.  Whenever the scan loop of hsq_compress is
\* about to search at pos, the hash index (head and prev) holds every
\* position p < pos with p + 2 < len(data), each once, and no position
\* >= pos: after a short or long reference the start and the interior of
\* the reference are in it, and every match candidate lies before pos.
C27_HashIndexCoverage ==
    \A c \in DOMAIN frames :
        Scanning(c)
            => LET data == frames[c].arg
                   st   == frames[c].st
                   n    == Len(data)
                   H    == {hash3(data, p) : p \in 0..(n - 1)}
               IN  /\ \A p \in 0..(n - 1) :
                        Indexed(data, st.head, st.prev, p) <=> (p < st.pos /\ p + 2 < n)
                   /\ \A h \in H :
                        LET ch == ChainOf(st.head, st.prev, h, n)
                        IN  \A i \in DOMAIN ch :
                                /\ 0 <= ch[i] /\ ch[i] < st.pos
                                /\ hash3(data, ch[i]) = h
                                /\ i > 1 => ch[i] < ch[i - 1]
                   /\ \A r \in DOMAIN st.head :
                        IF r \in {h \div ArrRow : h \in H}
                        THEN \A col \in 0..(ArrRow - 1) :
                                (ArrRow * r + col) \notin H => st.head[r][col] = -1
                        ELSE st.head[r] = HeadInit[r]

\* the scan stands behind a short reference of 5 bytes, before the end of the
\* buffer, with the start and the interior of the reference on one chain
C27_Witness ==
    /\ Scanning(1)
    /\ frames[1].st.pos < Len(frames[1].arg) - 2
    /\ frames[1].st.commands # <<>>
    /\ Last(frames[1].st.commands).kind = "short" /\ Last(frames[1].st.commands).x = 3
    /\ Len(ChainOf(frames[1].st.head, frames[1].st.prev,
                    hash3(frames[1].arg, frames[1].st.pos - 1), Len(frames[1].arg))) >= 5

\* the insertions of a scan, in order of the steps that made them
Insertions(steps) == UNION {{steps[j].ins[i] : i \in DOMAIN steps[j].ins} : j \in DOMAIN steps}

\* the number of bytes, at most cap, on which data agrees from pos and from at
Agrees(data, pos, at, ml, cap) ==
    /\ ml <= cap
    /\ \A t \in 0..(ml - 1) : data[pos + t + 1] = data[at + t + 1]
    /\ ml < cap => data[pos + ml + 1] # data[at + ml + 1]

\* C28: bounded chain walk.  At every scan position hsq_compress examines
\* at most 64 candidates; every candidate is at a position in
\* [max(0, pos - 8192), pos - 1]; successive candidates are at strictly
\* decreasing positions, the value written to prev[p] being a smaller
\* position of the same bucket for every inserted p but the first of its
\* bucket, for which it is p; no candidate is examined after one that
\* reaches the cap min(len(data) - pos, 257); best_len is the greatest
\* length matched at a candidate and best_off the distance of the nearest
\* candidate matching that many bytes.
C28_BoundedChainWalk ==
    \A k \in DOMAIN calls :
        calls[k].fn = "hsq_compress"
            => LET data == calls[k].arg
                   ins  == Insertions(calls[k].steps)
               IN  /\ \A j \in DOMAIN calls[k].steps :
                          LET s   == calls[k].steps[j]
                              K   == s.cands
                              cap == Min(Len(data) - s.pos, MaxMatchLen)
                          IN  /\ Len(K) <= MAX_CHAIN
                              /\ \A i \in DOMAIN K :
                                     /\ Max(0, s.pos - MaxDistance) <= K[i].at
                                     /\ K[i].at <= s.pos - 1
                                     /\ i > 1 => K[i].at < K[i - 1].at
                                     /\ Agrees(data, s.pos, K[i].at, K[i].ml, cap)
                                     /\ K[i].ml >= cap => i = Len(K)
                                     /\ K[i].ml <= s.best_len
                              /\ IF \E i \in DOMAIN K : K[i].ml > 0
                                 THEN \E i \in DOMAIN K :
                                          /\ K[i].ml = s.best_len
                                          /\ s.best_off = s.pos - K[i].at
                                          /\ \A m \in 1..(i - 1) : K[m].ml < s.best_len
                                 ELSE s.best_len = 0 /\ s.best_off = 0
                   /\ \A e \in ins :
                          /\ e.prev <= e.p
                          /\ e.prev < e.p => /\ e.prev >= 0
                                             /\ hash3(data, e.prev) = hash3(data, e.p)
                   /\ Cardinality({e \in ins : e.prev = e.p})
                          = Cardinality({hash3(data, e.p) : e \in ins})

\* the value written to prev[p] by the scan that logged steps
LinkOf(steps, p) == CHOOSE v \in {e.prev : e \in {x \in Insertions(steps) : x.p = p}} : TRUE

\* the chain goes on after the last candidate of step s
Going(steps, s) ==
    /\ s.cands # <<>>
    /\ LinkOf(steps, s.cands[Len(s.cands)].at) < s.cands[Len(s.cands)].at

\* a scan has cut a walk at 64 candidates, all matching as many bytes as the
\* nearest, with the chain going on inside the window, and has kept the
\* nearest
C28_Witness ==
    \E k \in DOMAIN calls :
        /\ calls[k].fn = "hsq_compress"
        /\ \E j \in DOMAIN calls[k].steps :
               LET s == calls[k].steps[j]
               IN  /\ Len(s.cands) = MAX_CHAIN
                   /\ Going(calls[k].steps, s)
                   /\ LinkOf(calls[k].steps, s.cands[MAX_CHAIN].at) >= s.pos - MaxDistance
                   /\ s.cands[MAX_CHAIN].ml = s.cands[1].ml
                   /\ s.best_len = s.cands[1].ml
                   /\ s.best_off = s.pos - s.cands[1].at

\* a scan has ended a walk at the far end of the window: the position the
\* walk would have examined next, had it gone on, lies more than 8192 bytes
\* back, fewer than 64 candidates were examined and none reached the cap
C28_WindowCut ==
    \E k \in DOMAIN calls :
        /\ calls[k].fn = "hsq_compress"
        /\ \E j \in DOMAIN calls[k].steps :
               LET s    == calls[k].steps[j]
                   from == IF s.cands = <<>> THEN s.pos ELSE s.cands[Len(s.cands)].at
                   nxt  == LinkOf(calls[k].steps, from)
               IN  /\ s.pos > MaxDistance
                   /\ s.pos + 2 < Len(calls[k].arg)
                   /\ Len(s.cands) < MAX_CHAIN
                   /\ \A i \in DOMAIN s.cands :
                          s.cands[i].ml < Min(Len(calls[k].arg) - s.pos, MaxMatchLen)
                   /\ nxt < from
                   /\ nxt < s.pos - MaxDistance
                   /\ \A t \in 0..2 : calls[k].arg[nxt + t + 1] = calls[k].arg[s.pos + t + 1]

\* a scan has stopped a walk at a candidate reaching the cap, with the chain
\* going on
C28_CapStop ==
    \E k \in DOMAIN calls :
        /\ calls[k].fn = "hsq_compress"
        /\ Len(calls[k].arg) <= 2 * MAX_CHAIN
        /\ \E j \in DOMAIN calls[k].steps :
               LET s == calls[k].steps[j]
               IN  /\ Going(calls[k].steps, s)
                   /\ Len(s.cands) < MAX_CHAIN
                   /\ s.cands[Len(s.cands)].ml = Min(Len(calls[k].arg) - s.pos, MaxMatchLen)

\* a scan has met a shorter match first and kept the nearer of two
\* candidates of the best length
C28_NearestKept ==
    \E k \in DOMAIN calls :
        /\ calls[k].fn = "hsq_compress"
        /\ Len(calls[k].arg) <= 2 * MAX_CHAIN
        /\ \E j \in DOMAIN calls[k].steps :
               LET s == calls[k].steps[j]
               IN  \E a, b, c \in DOMAIN s.cands :
                       /\ a < b /\ b < c
                       /\ s.cands[a].ml < s.cands[b].ml
                       /\ s.cands[b].ml = s.cands[c].ml
                       /\ s.best_len = s.cands[b].ml
                       /\ s.best_off = s.pos - s.cands[b].at

\* header bytes 2, 3, 4 and 5 to decode a stream under: zeros, 0xFF, a
\* compressed_size of 1 with a filler byte, and the bytes hsq_compress would
\* have written for a stream of this length
HeaderVariants(data) ==
    {<<0, 0, 0, 0>>, <<255, 255, 255, 255>>, <<7, 1, 0, 9>>,
     SubSeq(HsqHeader(data[1] + 256 * data[2], Len(data)), 3, 6)}

\* data with header bytes 2..5 replaced by h
WithHeader(data, h) ==
    <<>> \o [i \in 1..Len(data) |-> IF i \in 3..HsqHeaderLen THEN h[i - 2] ELSE data[i]]

\* C29: header bytes 2-5 do not influence decoding.  hsq_decompress of a
\* stream and of the same stream with any other header bytes 2, 3, 4 and 5
\* end alike: the same buffer returned or the same error raised, after
\* reading the same bytes; a wrong checksum or a compressed_size that is not
\* the stream's length changes nothing.
C29_HeaderBytesIgnored ==
    \A k \in DOMAIN calls :
        (calls[k].fn = "hsq_decompress" /\ Len(calls[k].arg) >= HsqHeaderLen)
            => \A h \in HeaderVariants(calls[k].arg) :
                   LET r == hsq_decompress(WithHeader(calls[k].arg, h))
                   IN  /\ r.status = calls[k].status
                       /\ r.value = calls[k].value
                       /\ r.final.pos = calls[k].final.pos

\* a stream whose header bytes do not sum to 0xAB and whose compressed_size
\* is not its length has been decoded to its declared, non-empty size, with
\* a reference among the commands
C29_Witness ==
    \E k \in DOMAIN calls :
        /\ calls[k].fn = "hsq_decompress"
        /\ Len(calls[k].arg) > HsqHeaderLen
        /\ LET d == calls[k].arg
           IN  /\ (d[1] + d[2] + d[3] + d[4] + d[5] + d[6]) % 256 # 171
               /\ d[4] + 256 * d[5] # Len(d)
        /\ calls[k].status = "ok"
        /\ calls[k].value # <<>>
        /\ Len(calls[k].value) = calls[k].decomp_size
        /\ calls[k].final.refs # <<>>

\* the unit at byte p of an F7 stream: a literal byte other than 0xF7, the
\* escape F7 01 F7, or a run F7 NN VV with 4 <= NN <= 255 and VV # 0xF7;
\* "none" where no unit starts
F7UnitAt(out, p) ==
    IF At(out, p) # F7 THEN "literal"
    ELSE IF p + 2 >= Len(out) THEN "none"
    ELSE IF At(out, p + 1) = 1 /\ At(out, p + 2) = F7 THEN "escape"
    ELSE IF 4 <= At(out, p + 1) /\ At(out, p + 1) <= 255 /\ At(out, p + 2) # F7 THEN "run"
    ELSE "none"

\* an F7 stream read unit by unit from its first byte: the kinds of the
\* units, the bytes they stand for, and ok unless a byte starts no unit
F7Units(out) ==
    LET Cont(u) == u.ok /\ u.p < Len(out)
        Step(u) ==
            LET kind == F7UnitAt(out, u.p)
            IN  IF kind = "none" THEN [u EXCEPT !.ok = FALSE]
                ELSE [p     |-> u.p + (IF kind = "literal" THEN 1 ELSE 3),
                      kinds |-> Append(u.kinds, kind),
                      dec   |-> IF kind = "literal" THEN Append(u.dec, At(out, u.p))
                                ELSE IF kind = "escape" THEN Append(u.dec, F7)
                                ELSE u.dec \o Repeat(At(out, u.p + 2), At(out, u.p + 1)),
                      ok    |-> TRUE]
    IN  While(Cont, Step, [p |-> 0, kinds |-> <<>>, dec |-> <<>>, ok |-> TRUE], Len(out))

\* C30: structure of f7_compress output.  For every input the output is a
\* concatenation of units, each one literal byte other than 0xF7, an escape
\* triple F7 01 F7, or a run triple F7 NN VV with 4 <= NN <= 255 and
\* VV # 0xF7; the units, read in order, stand for the input (a literal for
\* itself, an escape for one 0xF7, a run for NN copies of VV); and the
\* output is at most 3 * len(data) bytes long.
C30_F7OutputStructure ==
    \A k \in DOMAIN calls :
        calls[k].fn = "f7_compress"
            => LET u == F7Units(calls[k].value)
               IN  /\ calls[k].status = "ok"
                   /\ u.ok
                   /\ u.p = Len(calls[k].value)
                   /\ u.dec = calls[k].arg
                   /\ Len(calls[k].value) <= 3 * Len(calls[k].arg)

\* f7_compress has returned an escape triple next to a run triple of 4, the
\* two standing for the 5 bytes of the input
C30_Witness ==
    /\ Made(1, "f7_compress")
    /\ LET u == F7Units(calls[1].value)
       IN  /\ u.ok
           /\ \E a, b \in DOMAIN u.kinds : u.kinds[a] = "escape" /\ u.kinds[b] = "run"
           /\ u.dec = input
    /\ \E p \in 0..(Len(calls[1].value) - 3) :
           /\ F7UnitAt(calls[1].value, p) = "run"
           /\ At(calls[1].value, p + 1) = 4
    /\ Len(calls[1].value) > Len(input)

====
